---- MODULE Spec2Model ----
(***************************************************************************)
(* Rules kernel and incremental Zobrist hashing of the 7x7 Hnefatafl       *)
(* engine (src/src/hnefatafl.rs, src/src/zobrist.rs).                      *)
(*                                                                         *)
(* A GameState is modelled field by field.  The 64-bit Zobrist constants   *)
(* are pseudo-random words; they are modelled as independent generators of *)
(* a GF(2) vector space: a hash is the set of the generators that occur an *)
(* odd number of times in it, and ^ is the symmetric difference.           *)
(***************************************************************************)
EXTENDS Integers, Sequences, FiniteSets, TLC

\* board .. history: the fields of the GameState of the game being played.
\* trail: the moves played so far; prev: the GameState before the last move;
\* seen: the hash field after construction and after every move;
\* free: how many of the moves played left the recorded games.
VARIABLES board, player, hash, king_pos, history, trail, prev, seen, free

\* construction: the arguments given to MCTS::new and what came of it;
\* engine: the fields of the MCTS built;
\* tt_last: the last operation on the transposition table, with the bucket
\* it found; inserted: the keys given to add_entry so far; lost: those of
\* them whose entry a later insertion of an absent key has taken;
\* tt_trail: the table operations so far; tt_free: how many of them left
\* the recorded sequences.
VARIABLES construction, engine, tt_last, inserted, lost, tt_trail, tt_free

\* human: what became of the last line human_move read, and the GameState
\* it was read in.
VARIABLES human

\* search: the position of one call of MCTS::get_move in its code, its
\* locals and the frames of the nested calls of selection.
VARIABLES search

game_vars == <<board, player, hash, king_pos, history, trail, prev, seen, free>>

engine_vars == <<construction, engine, tt_last, inserted, lost, tt_trail, tt_free>>

vars == <<board, player, hash, king_pos, history, trail, prev, seen, free,
          construction, engine, tt_last, inserted, lost, tt_trail, tt_free,
          human, search>>

(***************************************************************************)
(* Constants of the program.                                               *)
(***************************************************************************)
MAX_GAME_LENGTH == 512

BOARD_SIZE == 7

Idx == 0 .. (BOARD_SIZE - 1)

\* Bounds of the exploration (not program constants): the number of moves
\* off the recorded games, and the largest coordinate a move tuple is given.
MaxFree == 1

MaxFreeLegal == 0

MaxCoord == 7

\* The keys given to the table: tags {} (the value 0) and {1} .. {MaxTag},
\* bucket indices {} and {1} .. {MaxLo}; the number of table operations off
\* the recorded sequences.
MaxTag == 5

MaxLo == 1

MaxFreeOps == 2

\* The longest playout explored, in moves after the root of the search.
MaxPlayout == 18

\* The most iterations_per_move of the engines whose runs are repeated.
MaxRepeated == 2

\* The searches that follow one another on one engine.
MaxSearches == 5

Coord == 0 .. MaxCoord

(***************************************************************************)
(* zobrist.rs                                                              *)
(***************************************************************************)
\* Zobrist::piece_index: B -> 0, W -> 1, K -> 2, anything else -> None (-1).
piece_index(piece) ==
    CASE piece = "B" -> 0
      [] piece = "W" -> 1
      [] piece = "K" -> 2
      [] OTHER -> -1

\* z_table.table[r][c][p]: one generator per (row, col, piece).
table(r, c, p) == { r * 21 + c * 3 + p }

\* z_table.black_to_move: one more generator.
black_to_move == { 147 }

\* a ^ b on hashes.
Xor(a, b) == (a \ b) \cup (b \ a)

(***************************************************************************)
(* hnefatafl.rs: GameState                                                 *)
(***************************************************************************)
initial_board ==
    [r \in Idx |->
        CASE r = 0 -> [c \in Idx |-> IF c = 3 THEN "B" ELSE "."]
          [] r = 1 -> [c \in Idx |-> IF c = 3 THEN "B" ELSE "."]
          [] r = 2 -> [c \in Idx |-> IF c = 3 THEN "W" ELSE "."]
          [] r = 3 -> [c \in Idx |->
                        CASE c \in {0, 1, 5, 6} -> "B"
                          [] c \in {2, 4} -> "W"
                          [] OTHER -> "K"]
          [] r = 4 -> [c \in Idx |-> IF c = 3 THEN "W" ELSE "."]
          [] r = 5 -> [c \in Idx |-> IF c = 3 THEN "B" ELSE "."]
          [] OTHER -> [c \in Idx |-> IF c = 3 THEN "B" ELSE "."]]

\* The loop of GameState::new over the cells, row by row: hash ^= table[r][c][p].
RECURSIVE board_hash(_, _)
board_hash(b, k) ==
    IF k = BOARD_SIZE * BOARD_SIZE THEN {}
    ELSE LET r == k \div BOARD_SIZE
             c == k % BOARD_SIZE
             p == piece_index(b[r][c])
         IN  IF p >= 0 THEN Xor(table(r, c, p), board_hash(b, k + 1))
             ELSE board_hash(b, k + 1)

\* GameState::new
new ==
    LET h == Xor(board_hash(initial_board, 0), black_to_move)
    IN  [board |-> initial_board, player |-> "B", hash |-> h,
         king_pos |-> <<3, 3>>, history |-> <<h>>]

OnBoard(r, c) == r >= 0 /\ r <= 6 /\ c >= 0 /\ c <= 6

IsCorner(r, c) == (r = 0 \/ r = 6) /\ (c = 0 \/ c = 6)

\* The four orthogonal directions, in the order of the source's arrays.
directions == << <<-1, 0>>, <<1, 0>>, <<0, -1>>, <<0, 1>> >>

\* GameState::is_static_hostile
is_static_hostile(S, row, col, victim) ==
    IF IsCorner(row, col) THEN TRUE
    ELSE IF row = 3 /\ col = 3 THEN victim \in {"B", "W"}
    ELSE FALSE

\* Mutation of is_hostile: the corners are not hostile.
is_hostile_no_corner(S, row, col, victim) ==
    IF victim # "B" /\ victim # "W" THEN FALSE
    ELSE LET square == S.board[row][col]
         IN  IF victim = "B" /\ square # "." /\ square # victim THEN TRUE
             ELSE IF victim = "W" /\ square # "." /\ square # victim /\ square # "K" THEN TRUE
             ELSE IF row = 3 /\ col = 3
                  THEN (IF victim = "B" THEN TRUE ELSE square = ".")
             ELSE FALSE

\* GameState::is_hostile
is_hostile(S, row, col, victim) ==
    IF victim # "B" /\ victim # "W" THEN FALSE
    ELSE LET square == S.board[row][col]
         IN  IF victim = "B" /\ square # "." /\ square # victim THEN TRUE
             ELSE IF victim = "W" /\ square # "." /\ square # victim /\ square # "K" THEN TRUE
             ELSE IF IsCorner(row, col) THEN TRUE
             ELSE IF row = 3 /\ col = 3
                  THEN (IF victim = "B" THEN TRUE ELSE square = ".")
             ELSE FALSE

\* One iteration of the direction loop of GameState::next_hash.
next_hash_dir(S, coords, enemy, h, d) ==
    LET sr == coords[1]
        sc == coords[2]
        er == coords[3]
        ec == coords[4]
        r_victim == er + d[1]
        c_victim == ec + d[2]
        r_anvil == r_victim + d[1]
        c_anvil == c_victim + d[2]
    IN  IF ~OnBoard(r_victim, c_victim) THEN h
        ELSE IF S.board[r_victim][c_victim] # enemy THEN h
        ELSE IF ~OnBoard(r_anvil, c_anvil) THEN h
        ELSE IF r_anvil = sr /\ c_anvil = sc
             THEN (IF ~is_static_hostile(S, r_anvil, c_anvil, enemy) THEN h
                   ELSE Xor(h, table(r_victim, c_victim, piece_index(enemy))))
        ELSE IF ~is_hostile(S, r_anvil, c_anvil, enemy) THEN h
        ELSE Xor(h, table(r_victim, c_victim, piece_index(enemy)))

\* GameState::next_hash
next_hash(S, coords) ==
    LET sr == coords[1]
        sc == coords[2]
        er == coords[3]
        ec == coords[4]
        piece == S.board[sr][sc]
        p_idx == piece_index(piece)
    IN  IF p_idx < 0 THEN S.hash
        ELSE LET h0 == Xor(Xor(Xor(S.hash, table(sr, sc, p_idx)),
                               table(er, ec, p_idx)), black_to_move)
                 enemy == IF piece = "B" THEN "W" ELSE "B"
                 h1 == next_hash_dir(S, coords, enemy, h0, directions[1])
                 h2 == next_hash_dir(S, coords, enemy, h1, directions[2])
                 h3 == next_hash_dir(S, coords, enemy, h2, directions[3])
             IN  next_hash_dir(S, coords, enemy, h3, directions[4])

\* Mutation of check_king_capture: the king is captured between two
\* attackers wherever it stands, the throne and its neighbours included.
check_king_capture_two_sided(S, r, c) ==
    \E pair \in { {<<r - 1, c>>, <<r + 1, c>>}, {<<r, c - 1>>, <<r, c + 1>>} } :
        Cardinality({n \in pair :
            OnBoard(n[1], n[2])
            /\ (S.board[n[1]][n[2]] = "B" \/ IsCorner(n[1], n[2]))}) = 2

\* GameState::check_king_capture
check_king_capture(S, r, c) ==
    IF r = 3 /\ c = 3
    THEN \A n \in {<<2, 3>>, <<3, 2>>, <<3, 4>>, <<4, 3>>} : S.board[n[1]][n[2]] = "B"
    ELSE IF <<r, c>> \in {<<2, 3>>, <<3, 2>>, <<3, 4>>, <<4, 3>>}
    THEN \A n \in {<<r - 1, c>>, <<r + 1, c>>, <<r, c - 1>>, <<r, c + 1>>} :
            S.board[n[1]][n[2]] = "B" \/ (n[1] = 3 /\ n[2] = 3)
    ELSE \E pair \in { {<<r - 1, c>>, <<r + 1, c>>}, {<<r, c - 1>>, <<r, c + 1>>} } :
            Cardinality({n \in pair :
                OnBoard(n[1], n[2])
                /\ (S.board[n[1]][n[2]] = "B" \/ IsCorner(n[1], n[2]))}) = 2

\* Mutation of remove_piece: the hash is left as it was.
remove_piece_board_only(S, er, ec, piece) ==
    [S EXCEPT !.board[er][ec] = "."]

\* Removal of a captured piece: the board cell is emptied and the piece's
\* constant is taken out of the hash.
remove_piece(S, er, ec, piece) ==
    [S EXCEPT !.board[er][ec] = ".",
              !.hash = Xor(@, table(er, ec, piece_index(piece)))]

\* One iteration of the direction loop of GameState::apply_captures.
apply_captures_dir(S, row, col, d) ==
    LET mover == S.board[row][col]
        targets == IF mover = "B" THEN {"W", "K"} ELSE {"B"}
        er == row + d[1]
        ec == col + d[2]
        br == er + d[1]
        bc == ec + d[2]
    IN  IF ~OnBoard(er, ec) THEN S
        ELSE LET neighbor == S.board[er][ec]
             IN  IF neighbor \notin targets THEN S
                 ELSE IF neighbor = "K"
                 THEN (IF check_king_capture(S, er, ec)
                       THEN remove_piece(S, er, ec, "K")
                       ELSE S)
                 ELSE IF ~OnBoard(br, bc) THEN S
                 ELSE IF ~is_hostile(S, br, bc, neighbor) THEN S
                 ELSE remove_piece(S, er, ec, neighbor)

\* Mutation of apply_captures: the loop stops before the last direction.
apply_captures_three(S, row, col) ==
    IF S.board[row][col] \notin {"B", "W", "K"} THEN S
    ELSE apply_captures_dir(
            apply_captures_dir(
                apply_captures_dir(S, row, col, directions[1]),
                row, col, directions[2]),
            row, col, directions[3])

\* GameState::apply_captures
apply_captures(S, row, col) ==
    IF S.board[row][col] \notin {"B", "W", "K"} THEN S
    ELSE apply_captures_dir(
            apply_captures_dir(
                apply_captures_dir(
                    apply_captures_dir(S, row, col, directions[1]),
                    row, col, directions[2]),
                row, col, directions[3]),
            row, col, directions[4])

\* Mutation of move_piece_pre: the king position is not updated.
move_piece_pre_king_stays(S, coords) ==
    LET sr == coords[1]
        sc == coords[2]
        er == coords[3]
        ec == coords[4]
        piece == S.board[sr][sc]
        p_idx == piece_index(piece)
        h == Xor(Xor(Xor(S.hash, table(sr, sc, p_idx)), table(er, ec, p_idx)),
                 black_to_move)
    IN  [board |-> [S.board EXCEPT ![er][ec] = piece, ![sr][sc] = "."],
         hash |-> h,
         king_pos |-> S.king_pos,
         history |-> IF Len(S.history) < MAX_GAME_LENGTH
                     THEN Append(S.history, h) ELSE S.history,
         player |-> IF S.player = "B" THEN "W" ELSE "B"]

\* GameState::move_piece, up to the call of apply_captures: board, hash,
\* king position, history (appended only below the cap), player.
move_piece_pre(S, coords) ==
    LET sr == coords[1]
        sc == coords[2]
        er == coords[3]
        ec == coords[4]
        piece == S.board[sr][sc]
        p_idx == piece_index(piece)
        h == Xor(Xor(Xor(S.hash, table(sr, sc, p_idx)), table(er, ec, p_idx)),
                 black_to_move)
    IN  [board |-> [S.board EXCEPT ![er][ec] = piece, ![sr][sc] = "."],
         hash |-> h,
         king_pos |-> IF piece = "K" THEN <<er, ec>> ELSE S.king_pos,
         history |-> IF Len(S.history) < MAX_GAME_LENGTH
                     THEN Append(S.history, h) ELSE S.history,
         player |-> IF S.player = "B" THEN "W" ELSE "B"]

\* Mutation of move_piece: the mover is removed when it lands between two
\* enemies in a row or a column.
move_piece_caught(S, coords) ==
    LET T == apply_captures(move_piece_pre(S, coords), coords[3], coords[4])
        mover == S.board[coords[1]][coords[2]]
        foe(r, c) == /\ OnBoard(r, c)
                     /\ T.board[r][c] # "."
                     /\ (T.board[r][c] = "B") # (mover = "B")
    IN  IF \/ foe(coords[3] - 1, coords[4]) /\ foe(coords[3] + 1, coords[4])
           \/ foe(coords[3], coords[4] - 1) /\ foe(coords[3], coords[4] + 1)
        THEN remove_piece(T, coords[3], coords[4], mover)
        ELSE T

\* GameState::move_piece
move_piece(S, coords) ==
    apply_captures(move_piece_pre(S, coords), coords[3], coords[4])

\* Mutation of is_nonking_entering_restricted: only the corners are
\* restricted.
is_nonking_entering_restricted_corners(S, coords) ==
    /\ S.board[coords[1]][coords[2]] # "K"
    /\ IsCorner(coords[3], coords[4])

\* GameState::is_nonking_entering_restricted
is_nonking_entering_restricted(S, coords) ==
    S.board[coords[1]][coords[2]] # "K"
    /\ (IsCorner(coords[3], coords[4]) \/ (coords[3] = 3 /\ coords[4] = 3))

\* GameState::is_illegal_repetition: history[0..history_len].contains(next_hash)
is_illegal_repetition(S, coords, nh) ==
    \E i \in 1 .. Len(S.history) : S.history[i] = nh

\* Mutation of passes_filters: the scans do not look at the history.
passes_filters_no_repetition(S, coords) ==
    ~is_nonking_entering_restricted(S, coords)

\* The filter applied to each candidate of a scan.
passes_filters(S, coords) ==
    ~is_nonking_entering_restricted(S, coords)
    /\ ~is_illegal_repetition(S, coords, next_hash(S, coords))

\* Mutation of scan_moves: the scan goes on beyond an occupied cell.
RECURSIVE scan_moves_through(_, _, _, _, _, _, _)
scan_moves_through(S, r, c, rr, cc, dr, dc) ==
    IF ~OnBoard(rr, cc) THEN << >>
    ELSE (IF S.board[rr][cc] = "." /\ passes_filters(S, <<r, c, rr, cc>>)
          THEN << <<r, c, rr, cc>> >> ELSE << >>)
         \o scan_moves_through(S, r, c, rr + dr, cc + dc, dr, dc)

\* One of the four scans of GameState::get_legal_moves from the piece at
\* (r, c): the cells (rr, cc), (rr+dr, cc+dc), ... up to the first occupied one.
RECURSIVE scan_moves(_, _, _, _, _, _, _)
scan_moves(S, r, c, rr, cc, dr, dc) ==
    IF ~OnBoard(rr, cc) THEN << >>
    ELSE IF S.board[rr][cc] # "." THEN << >>
    ELSE (IF passes_filters(S, <<r, c, rr, cc>>) THEN << <<r, c, rr, cc>> >> ELSE << >>)
         \o scan_moves(S, r, c, rr + dr, cc + dc, dr, dc)

\* Whether the piece on a cell belongs to the given player.
owns(pl, piece) ==
    piece # "."
    /\ ~(pl = "B" /\ piece # "B")
    /\ ~(pl = "W" /\ ~(piece = "W" \/ piece = "K"))

\* GameState::get_legal_moves: the moves in the order the source pushes them
\* (cells row by row; up, down, left, right; nearest destination first).
RECURSIVE legal_moves_from(_, _)
legal_moves_from(S, k) ==
    IF k = BOARD_SIZE * BOARD_SIZE THEN << >>
    ELSE LET r == k \div BOARD_SIZE
             c == k % BOARD_SIZE
         IN  (IF owns(S.player, S.board[r][c])
              THEN scan_moves(S, r, c, r - 1, c, -1, 0)
                   \o scan_moves(S, r, c, r + 1, c, 1, 0)
                   \o scan_moves(S, r, c, r, c - 1, 0, -1)
                   \o scan_moves(S, r, c, r, c + 1, 0, 1)
              ELSE << >>)
             \o legal_moves_from(S, k + 1)

get_legal_moves(S) == legal_moves_from(S, 0)

Range(s) == { s[i] : i \in 1 .. Len(s) }

\* One of the four scans of GameState::has_legal_move: true at the first
\* candidate that passes the filters.
RECURSIVE scan_has(_, _, _, _, _, _, _)
scan_has(S, r, c, rr, cc, dr, dc) ==
    IF ~OnBoard(rr, cc) THEN FALSE
    ELSE IF S.board[rr][cc] # "." THEN FALSE
    ELSE IF passes_filters(S, <<r, c, rr, cc>>) THEN TRUE
    ELSE scan_has(S, r, c, rr + dr, cc + dc, dr, dc)

\* Mutation of has_legal_move: the pieces scanned are the attackers,
\* whichever player is asked for.
has_legal_move_attackers(S, pl) ==
    \E r \in Idx : \E c \in Idx :
        /\ owns("B", S.board[r][c])
        /\ \/ scan_has(S, r, c, r - 1, c, -1, 0)
           \/ scan_has(S, r, c, r + 1, c, 1, 0)
           \/ scan_has(S, r, c, r, c - 1, 0, -1)
           \/ scan_has(S, r, c, r, c + 1, 0, 1)

\* GameState::has_legal_move
has_legal_move(S, pl) ==
    \E r \in Idx : \E c \in Idx :
        /\ owns(pl, S.board[r][c])
        /\ \/ scan_has(S, r, c, r - 1, c, -1, 0)
           \/ scan_has(S, r, c, r + 1, c, 1, 0)
           \/ scan_has(S, r, c, r, c - 1, 0, -1)
           \/ scan_has(S, r, c, r, c + 1, 0, 1)

\* Number of cells holding the given piece.
count_piece(b, piece) ==
    Cardinality({rc \in Idx \X Idx : b[rc[1]][rc[2]] = piece})

DRAW_PIECE_THRESHOLD == 1

\* Mutation of is_insufficient_material_draw: at most one attacker, as the
\* comment of DRAW_PIECE_THRESHOLD says.
is_insufficient_material_draw_one(S) ==
    count_piece(S.board, "B") <= DRAW_PIECE_THRESHOLD
    /\ count_piece(S.board, "W") <= DRAW_PIECE_THRESHOLD

\* GameState::is_insufficient_material_draw
is_insufficient_material_draw(S) ==
    count_piece(S.board, "B") <= DRAW_PIECE_THRESHOLD + 1
    /\ count_piece(S.board, "W") <= DRAW_PIECE_THRESHOLD

\* Mutation of check_game_over: the test of the captured king is missing.
check_game_over_no_king_test(S) ==
    IF \E k \in {<<0, 0>>, <<0, 6>>, <<6, 0>>, <<6, 6>>} : S.board[k[1]][k[2]] = "K"
    THEN "W"
    ELSE IF ~has_legal_move(S, S.player)
         THEN (IF S.player = "B" THEN "W" ELSE "B")
    ELSE IF is_insufficient_material_draw(S) THEN "D"
    ELSE "None"

\* GameState::check_game_over: "W", "B", "D" or "None".
check_game_over(S) ==
    IF \E k \in {<<0, 0>>, <<0, 6>>, <<6, 0>>, <<6, 6>>} : S.board[k[1]][k[2]] = "K"
    THEN "W"
    ELSE IF S.board[S.king_pos[1]][S.king_pos[2]] # "K" THEN "B"
    ELSE IF ~has_legal_move(S, S.player)
         THEN (IF S.player = "B" THEN "W" ELSE "B")
    ELSE IF is_insufficient_material_draw(S) THEN "D"
    ELSE "None"

\* GameState::is_legal_move, for a tuple of usize values.
is_legal_move(S, coords) ==
    IF coords[1] = coords[3] /\ coords[2] = coords[4] THEN FALSE
    ELSE IF \E i \in 1 .. 4 : coords[i] > 6 THEN FALSE
    ELSE LET piece == S.board[coords[1]][coords[2]]
         IN  IF piece = "." THEN FALSE
             ELSE IF S.board[coords[3]][coords[4]] # "." THEN FALSE
             ELSE IF S.player = "B" /\ piece # "B" THEN FALSE
             ELSE IF S.player = "W" /\ piece # "W" /\ piece # "K" THEN FALSE
             ELSE IF coords[1] # coords[3] /\ coords[2] # coords[4] THEN FALSE
             ELSE IF coords[1] = coords[3]
                     /\ \E i \in Idx :
                          /\ i > (IF coords[2] < coords[4] THEN coords[2] ELSE coords[4])
                          /\ i < (IF coords[2] < coords[4] THEN coords[4] ELSE coords[2])
                          /\ S.board[coords[1]][i] # "."
                  THEN FALSE
             ELSE IF coords[1] # coords[3]
                     /\ \E i \in Idx :
                          /\ i > (IF coords[1] < coords[3] THEN coords[1] ELSE coords[3])
                          /\ i < (IF coords[1] < coords[3] THEN coords[3] ELSE coords[1])
                          /\ S.board[i][coords[2]] # "."
                  THEN FALSE
             ELSE IF is_nonking_entering_restricted(S, coords) THEN FALSE
             ELSE ~is_illegal_repetition(S, coords, next_hash(S, coords))

\* The empty cells in a straight line from (r, c) in direction (dr, dc),
\* nearest first, up to the first occupied cell or the edge of the board.
RECURSIVE clear_path(_, _, _, _, _)
clear_path(S, r, c, dr, dc) ==
    IF ~OnBoard(r, c) THEN << >>
    ELSE IF S.board[r][c] # "." THEN << >>
    ELSE << <<r, c>> >> \o clear_path(S, r + dr, c + dc, dr, dc)

\* The cells the king has a clear straight path to: up, down, left, right.
king_paths(S) ==
    LET r == S.king_pos[1]
        c == S.king_pos[2]
    IN  IF S.board[r][c] # "K" THEN << >>
        ELSE clear_path(S, r - 1, c, -1, 0) \o clear_path(S, r + 1, c, 1, 0)
             \o clear_path(S, r, c - 1, 0, -1) \o clear_path(S, r, c + 1, 0, 1)

\* The king's move to the first of the given cells, << >> for (false, None).
king_move(S, cells) ==
    IF cells = << >> THEN << >>
    ELSE <<S.king_pos[1], S.king_pos[2], cells[1][1], cells[1][2]>>

\* GameState::heuristic_king_to_corner: the king has a clear straight path
\* to a corner.
heuristic_king_to_corner(S) ==
    king_move(S, SelectSeq(king_paths(S), LAMBDA p : IsCorner(p[1], p[2])))

\* An edge of the board through the cell holds no piece, so that no
\* attacker stands on it to intercept.
on_empty_edge(S, p) ==
    \/ p[1] \in {0, 6} /\ \A c \in Idx : S.board[p[1]][c] = "."
    \/ p[2] \in {0, 6} /\ \A r \in Idx : S.board[r][p[2]] = "."

\* GameState::heuristic_king_empty_edge: the king has a clear straight path
\* to an edge cell that is not a corner, on an edge where no attacker can
\* intercept.
heuristic_king_empty_edge(S) ==
    king_move(S, SelectSeq(king_paths(S),
                           LAMBDA p : ~IsCorner(p[1], p[2]) /\ on_empty_edge(S, p)))

\* GameState::heuristic_wins_w: one of the two heuristics of the king holds.
heuristic_wins_w(S) ==
    heuristic_king_to_corner(S) # << >> \/ heuristic_king_empty_edge(S) # << >>

\* GameState::heuristic_capture_king: a single legal move captures the
\* king; the first such move, << >> for (false, None).
heuristic_capture_king(S) ==
    LET taking == SelectSeq(get_legal_moves(S),
                     LAMBDA m : move_piece(S, m).board[S.king_pos[1]][S.king_pos[2]] # "K")
    IN  IF taking = << >> THEN << >> ELSE taking[1]

(***************************************************************************)
(* transposition.rs                                                        *)
(*                                                                         *)
(* A u64 key is modelled by its two parts, hi (the upper 40 bits, the tag) *)
(* and lo (the lower TT_DIM_BITS bits, the bucket index), each a GF(2)     *)
(* vector like the hashes above; {} is the value 0.  A TT_entry is the     *)
(* record of the four bit fields of its u128.                              *)
(***************************************************************************)
GEN_BITS == 29

VISITS_BITS == 29

WINS_BITS == 30

\* usize::MAX as the initial min_visits of add_entry.  No visit field
\* reaches it; it is represented by the first value above the 29-bit field.
USIZE_MAX == 2 ^ VISITS_BITS

\* The key of a position: both parts of the Zobrist hash.
Key(h) == [hi |-> h, lo |-> h]

\* The u64 value 0.
Zero == [hi |-> {}, lo |-> {}]

\* TT_entry::default (mem::zeroed)
TT_entry_default ==
    [hash |-> {}, generation |-> 0, n_visits |-> 0, n_wins |-> 0]

\* TT_entry::hash_equals: the stored part against hash >> TT_DIM_BITS.
hash_equals(entry, key) == entry.hash = key.hi

\* TT_entry::get_generation
get_generation(entry) == entry.generation

\* TT_entry::get_n_visits
get_n_visits(entry) == entry.n_visits

\* Mutation of get_n_wins: the 30-bit field read as an unsigned number.
get_n_wins_unsigned(entry) == entry.n_wins

\* TT_entry::get_n_wins: sign extension of the 30-bit field.
get_n_wins(entry) ==
    IF entry.n_wins >= 2 ^ (WINS_BITS - 1)
    THEN entry.n_wins - 2 ^ WINS_BITS
    ELSE entry.n_wins

\* TT_entry::set_hash
set_hash(entry, key) == [entry EXCEPT !.hash = key.hi]

\* a | b on small naturals.
RECURSIVE BitOr(_, _)
BitOr(a, b) ==
    IF a = 0 THEN b
    ELSE IF b = 0 THEN a
    ELSE (IF a % 2 = 1 \/ b % 2 = 1 THEN 1 ELSE 0) + 2 * BitOr(a \div 2, b \div 2)

\* TT_entry::set_generation: the field is cleared, the shifted value is
\* OR-ed in without a mask, so the bits of generation above GEN_BITS land in
\* the low bits of the visits field.
set_generation(entry, generation) ==
    [entry EXCEPT !.generation = generation % (2 ^ GEN_BITS),
                  !.n_visits = BitOr(entry.n_visits, generation \div (2 ^ GEN_BITS))]

\* TT_entry::set_n_visits: masked to the field.
set_n_visits(entry, value) ==
    [entry EXCEPT !.n_visits = value % (2 ^ VISITS_BITS)]

\* TT_entry::set_n_wins: two's complement, masked to the field.
set_n_wins(entry, value) ==
    [entry EXCEPT !.n_wins = value % (2 ^ WINS_BITS)]

\* TT_entry::add_n_visits
add_n_visits(entry, increase) ==
    set_n_visits(entry, get_n_visits(entry) + increase)

\* TT_entry::add_n_wins
add_n_wins(entry, increase) ==
    set_n_wins(entry, get_n_wins(entry) + increase)

\* TT_bucket::default (mem::zeroed): entries[0..4], here 1..4.
TT_bucket_default == [i \in 1 .. 4 |-> TT_entry_default]

\* TT_bucket::get_entry: the index of the first matching entry, 0 for None.
get_entry(bucket, key) ==
    IF \E i \in 1 .. 4 : hash_equals(bucket[i], key)
    THEN CHOOSE i \in 1 .. 4 :
            /\ hash_equals(bucket[i], key)
            /\ \A j \in 1 .. i - 1 : ~hash_equals(bucket[j], key)
    ELSE 0

\* The four writes of add_entry on the entry it takes.
write_entry(entry, key, generation) ==
    set_n_wins(set_n_visits(set_generation(set_hash(entry, key), generation), 0), 0)

\* Mutation of least_visited: on equal visits the later entry is taken.
RECURSIVE least_visited_last(_, _, _, _)
least_visited_last(bucket, index, min_visits, min_index) ==
    IF index > 4 THEN min_index
    ELSE IF get_n_visits(bucket[index]) <= min_visits
         THEN least_visited_last(bucket, index + 1, get_n_visits(bucket[index]), index)
         ELSE least_visited_last(bucket, index + 1, min_visits, min_index)

\* The second loop of add_entry: the least visited entry of the bucket.
RECURSIVE least_visited(_, _, _, _)
least_visited(bucket, index, min_visits, min_index) ==
    IF index > 4 THEN min_index
    ELSE IF get_n_visits(bucket[index]) < min_visits
         THEN least_visited(bucket, index + 1, get_n_visits(bucket[index]), index)
         ELSE least_visited(bucket, index + 1, min_visits, min_index)

\* Mutation of add_entry_from: the least visited entry is sought among all
\* entries, not only among those outside the generation range.
RECURSIVE add_entry_from_any(_, _, _, _, _, _, _)
add_entry_from_any(bucket, key, generation, generation_bound, index, min_visits, min_index) ==
    IF index > 4
    THEN [bucket |-> [bucket EXCEPT ![min_index] = write_entry(@, key, generation)],
          kind |-> "OverwrittenOUT", index |-> min_index]
    ELSE LET entry == bucket[index]
         IN  IF hash_equals(entry, key)
             THEN [bucket |-> bucket, kind |-> "Present", index |-> 0]
             ELSE IF hash_equals(entry, Zero)
             THEN [bucket |-> [bucket EXCEPT ![index] = write_entry(@, key, generation)],
                   kind |-> "EmptyEntry", index |-> index]
             ELSE IF get_n_visits(entry) < min_visits
             THEN add_entry_from_any(bucket, key, generation, generation_bound,
                                     index + 1, get_n_visits(entry), index)
             ELSE add_entry_from_any(bucket, key, generation, generation_bound,
                                     index + 1, min_visits, min_index)

\* TT_bucket::add_entry from entry index on: the result is the bucket
\* after the call and what happened: "Present" (found, nothing done),
\* "EmptyEntry", "OverwrittenOUT" (an entry outside the generation range),
\* "OverwrittenIN" (an entry inside it), with the index taken.
RECURSIVE add_entry_from(_, _, _, _, _, _, _)
add_entry_from(bucket, key, generation, generation_bound, index, min_visits, min_index) ==
    IF index > 4
    THEN LET full == min_visits = USIZE_MAX
             taken == IF full THEN least_visited(bucket, 1, min_visits, min_index)
                      ELSE min_index
         IN  [bucket |-> [bucket EXCEPT ![taken] = write_entry(@, key, generation)],
              kind |-> IF full THEN "OverwrittenIN" ELSE "OverwrittenOUT",
              index |-> taken]
    ELSE LET entry == bucket[index]
         IN  IF hash_equals(entry, key)
             THEN [bucket |-> bucket, kind |-> "Present", index |-> 0]
             ELSE IF hash_equals(entry, Zero)
             THEN [bucket |-> [bucket EXCEPT ![index] = write_entry(@, key, generation)],
                   kind |-> "EmptyEntry", index |-> index]
             ELSE IF get_generation(entry) < generation_bound
                     /\ get_n_visits(entry) < min_visits
             THEN add_entry_from(bucket, key, generation, generation_bound,
                                 index + 1, get_n_visits(entry), index)
             ELSE add_entry_from(bucket, key, generation, generation_bound,
                                 index + 1, min_visits, min_index)

\* TT_bucket::add_entry
add_entry(bucket, key, generation, generation_bound) ==
    add_entry_from(bucket, key, generation, generation_bound, 1, USIZE_MAX, 0)

\* TT::new: every bucket zeroed.  The table is held as the function of the
\* buckets that differ from TT_bucket_default, indexed by the lo part.
TT_new == [x \in {} |-> TT_bucket_default]

\* Mutation of get_bucket: the bucket 0 whatever the hash.
get_bucket_first(tt, key) ==
    IF {} \in DOMAIN tt THEN tt[{}] ELSE TT_bucket_default

\* TT::get_bucket: the bucket at hash & TT_DIM_MINUS_1.
get_bucket(tt, key) ==
    IF key.lo \in DOMAIN tt THEN tt[key.lo] ELSE TT_bucket_default

\* The table after the bucket of key has been written through the
\* reference get_bucket returned.
put_bucket(tt, key, bucket) ==
    LET D == IF bucket = TT_bucket_default
             THEN DOMAIN tt \ {key.lo}
             ELSE DOMAIN tt \cup {key.lo}
    IN  [x \in D |-> IF x = key.lo THEN bucket ELSE tt[x]]

(***************************************************************************)
(* mcts.rs: the engine                                                     *)
(***************************************************************************)
WIN == 1

LOSS == 0

DRAW == -1

MAX_GEN == 2 ^ 15

\* transposition::MAX_ITER, the bound of the guard of MCTS::new.  Its
\* declaration is not in transposition.rs; it is the bound of the invariant
\* 2^VISITS_BITS > 2^GEN_BITS * iterations_per_move that the guard is
\* documented to check, with 2^GEN_BITS = MAX_GEN as mcts.rs states.
MAX_ITER == (2 ^ VISITS_BITS) \div MAX_GEN

\* Mutation of new_panics: every iteration count is accepted.
new_panics_never(seed, iterations_per_move, generation_range) == FALSE

\* MCTS::new, the guard: the construction panics.
new_panics(seed, iterations_per_move, generation_range) ==
    iterations_per_move >= MAX_ITER

\* MCTS::new, the engine built.  z_table is Zobrist::new(seed).
MCTS_new(seed, iterations_per_move, generation_range) ==
    [seed |-> seed,
     iterations_per_move |-> iterations_per_move,
     generation |-> 0,
     generation_range |-> generation_range,
     generation_bound |-> 0,
     transpositions |-> TT_new,
     written_entries |-> 0,
     overwritten_entries_in |-> 0,
     overwritten_entries_out |-> 0]

\* Mutation of increase_generation: the bound moves with every generation.
increase_generation_lockstep(E) ==
    [E EXCEPT !.generation = E.generation + 1,
              !.generation_bound = E.generation_bound + 1,
              !.written_entries = 0,
              !.overwritten_entries_in = 0,
              !.overwritten_entries_out = 0]

\* MCTS::increase_generation; the panic at MAX_GEN is the guard of the
\* actions that call it.
increase_generation(E) ==
    [E EXCEPT !.generation = E.generation + 1,
              !.generation_bound = IF E.generation + 1 > E.generation_range
                                   THEN E.generation_bound + 1
                                   ELSE E.generation_bound,
              !.written_entries = 0,
              !.overwritten_entries_in = 0,
              !.overwritten_entries_out = 0]

\* The counting that follows a call of add_entry in start_search and in
\* selection: increase_collision_in, increase_collision_out, or one more
\* written entry.
count_write(E, kind) ==
    CASE kind = "OverwrittenIN" ->
            [E EXCEPT !.written_entries = @ + 1, !.overwritten_entries_in = @ + 1]
      [] kind = "OverwrittenOUT" ->
            [E EXCEPT !.written_entries = @ + 1, !.overwritten_entries_out = @ + 1]
      [] kind = "EmptyEntry" ->
            [E EXCEPT !.written_entries = @ + 1]
      [] OTHER -> E

\* The expansion of selection on the table: add_entry on the bucket of the
\* selected hash with the engine's generation and bound, then the counting.
expand(E, key) ==
    LET R == add_entry(get_bucket(E.transpositions, key), key,
                       E.generation, E.generation_bound)
    IN  count_write([E EXCEPT !.transpositions = put_bucket(@, key, R.bucket)],
                    R.kind)

\* Mutation of backpropagate: the visit is not counted.
backpropagate_wins_only(E, key, result) ==
    LET bucket == get_bucket(E.transpositions, key)
        i == get_entry(bucket, key)
    IN  IF i = 0 THEN E
        ELSE [E EXCEPT !.transpositions =
                 put_bucket(@, key,
                     [bucket EXCEPT ![i] =
                         add_n_wins(set_generation(@, E.generation), result)])]

\* The backpropagation of selection: the entry of the selected hash, if
\* found, gets the generation, one more visit and the result added.
backpropagate(E, key, result) ==
    LET bucket == get_bucket(E.transpositions, key)
        i == get_entry(bucket, key)
    IN  IF i = 0 THEN E
        ELSE [E EXCEPT !.transpositions =
                 put_bucket(@, key,
                     [bucket EXCEPT ![i] =
                         add_n_wins(add_n_visits(set_generation(@, E.generation), 1),
                                    result)])]

\* The entry of a hash in the table: get_bucket, then get_entry.
lookup(E, key) ==
    LET bucket == get_bucket(E.transpositions, key)
        i == get_entry(bucket, key)
    IN  [found |-> i # 0,
         entry |-> IF i = 0 THEN TT_entry_default ELSE bucket[i]]

\* Mutation of root_stats: the search starts from one visit and no wins,
\* whatever the table holds.
root_stats_anew(E, root) == [visits |-> 1, wins |-> 0]

\* start_search: the statistics of the root read from the table, at least
\* one visit.
root_stats(E, root) ==
    LET L == lookup(E, Key(root.hash))
        root_visits == IF L.found THEN get_n_visits(L.entry) ELSE 1
    IN  [visits |-> IF root_visits < 1 THEN 1 ELSE root_visits,
         wins |-> IF L.found THEN get_n_wins(L.entry) ELSE 0]

\* start_search, backpropagation to the root: add_entry of the root's hash,
\* the counting, and the two values written if the entry is found.
write_root(E, root, root_visits, root_wins) ==
    LET key == Key(root.hash)
        E1 == expand(E, key)
        bucket == get_bucket(E1.transpositions, key)
        i == get_entry(bucket, key)
    IN  IF i = 0 THEN E1
        ELSE [E1 EXCEPT !.transpositions =
                 put_bucket(@, key,
                     [bucket EXCEPT ![i] =
                         set_n_wins(set_n_visits(@, root_visits), root_wins)])]

\* selection: the child of the move has an entry with visits.
is_visited(E, state, m) ==
    LET L == lookup(E, Key(next_hash(state, m)))
    IN  L.found /\ get_n_visits(L.entry) > 0

\* selection: unvisited_moves, in the order of the legal moves.
unvisited_moves(E, state) ==
    SelectSeq(get_legal_moves(state), LAMBDA m : ~is_visited(E, state, m))

\* The UCB values are compared exactly where the exploration terms agree:
\* ln(node_visits) is 0, or the visited children have equal visits.
ucb_exact(E, state, node_visits) ==
    \/ node_visits = 1
    \/ \A m1 \in Range(get_legal_moves(state)) :
       \A m2 \in Range(get_legal_moves(state)) :
          (is_visited(E, state, m1) /\ is_visited(E, state, m2)) =>
             get_n_visits(lookup(E, Key(next_hash(state, m1))).entry)
                = get_n_visits(lookup(E, Key(next_hash(state, m2))).entry)

\* ucb of entry a > ucb of entry b, the exploration terms agreeing:
\* (-wins_a / visits_a + 1) / 2 > (-wins_b / visits_b + 1) / 2.
ucb_greater(a, b) ==
    get_n_wins(a) * get_n_visits(b) < get_n_wins(b) * get_n_visits(a)

\* selection, the loop over the moves from the k-th one: the index of the
\* visited move of greatest UCB value, the first of them, 0 for None.
RECURSIVE best_move_from(_, _, _, _, _)
best_move_from(E, state, moves, k, best) ==
    IF k > Len(moves) THEN best
    ELSE LET entry == lookup(E, Key(next_hash(state, moves[k]))).entry
             better ==
                 \/ best = 0
                 \/ ucb_greater(entry,
                                lookup(E, Key(next_hash(state, moves[best]))).entry)
         IN  best_move_from(E, state, moves, k + 1,
                 IF is_visited(E, state, moves[k]) /\ better THEN k ELSE best)

\* The value returned unchanged.
perspective_same(r) == r

\* selection, its last statement: -result_for_child_node.
perspective(r) == 0 - r

\* selection, terminal checks: the value of a finished game.
terminal_value(state, winner) ==
    IF winner = "D" THEN DRAW
    ELSE IF winner = state.player THEN WIN
    ELSE LOSS

\* simulation: the value of a finished playout to the player of state.
simulation_value(state, winner) ==
    IF winner = "T" THEN DRAW
    ELSE IF winner = state.player THEN WIN
    ELSE LOSS

\* get_move, the loop that chooses the move, from the k-th move: the index
\* of the chosen move, 0 for None.
RECURSIVE most_visited_from(_, _, _, _, _, _)
most_visited_from(E, root, moves, k, max_visits, best_move) ==
    IF k > Len(moves) THEN best_move
    ELSE LET L == lookup(E, Key(next_hash(root, moves[k])))
             winner == check_game_over(move_piece(root, moves[k]))
             taken == /\ L.found
                      /\ get_n_visits(L.entry) > max_visits
                      /\ (winner = "None" \/ ~(root.player # winner))
         IN  most_visited_from(E, root, moves, k + 1,
                 IF taken THEN get_n_visits(L.entry) ELSE max_visits,
                 IF taken THEN k ELSE best_move)

\* get_move, the heuristics before the search: the move returned, << >> if
\* the search runs.
heuristic_move(root) ==
    IF root.player = "W"
    THEN IF heuristic_king_to_corner(root) # << >>
         THEN heuristic_king_to_corner(root)
         ELSE heuristic_king_empty_edge(root)
    ELSE heuristic_capture_king(root)

(***************************************************************************)
(* The game: the state of one GameState and the moves played on it.        *)
(***************************************************************************)
\* The GameState held by the variables.
Self ==
    [board |-> board, player |-> player, hash |-> hash,
     king_pos |-> king_pos, history |-> history]

\* Recorded games: the move sequences the exploration follows.
\* A white capture at ply 4, then both sides shuffle back to that position.
GameRepeat ==
    << <<0, 3, 0, 2>>, <<2, 3, 2, 1>>, <<0, 2, 0, 1>>, <<4, 3, 4, 1>>,
       <<0, 1, 0, 2>>, <<2, 1, 2, 2>>, <<0, 2, 0, 1>>, <<2, 2, 2, 1>> >>

\* Black takes its first move back; white may not do the same.
GameUndo ==
    << <<0, 3, 0, 2>>, <<2, 3, 2, 1>>, <<0, 2, 0, 3>> >>

\* The king is captured away from the throne.
GameKingOpen ==
    << <<3, 6, 4, 6>>, <<4, 3, 4, 0>>, <<5, 3, 5, 0>>, <<3, 3, 5, 3>>,
       <<4, 6, 4, 3>> >>

\* The king is captured beside a corner.
GameKingCorner ==
    << <<3, 1, 1, 1>>, <<3, 2, 1, 2>>, <<3, 0, 5, 0>>, <<1, 2, 5, 2>>,
       <<1, 1, 5, 1>>, <<3, 3, 3, 1>>, <<5, 0, 3, 0>>, <<3, 1, 0, 1>>,
       <<0, 3, 0, 2>> >>

\* The king is captured on the throne.
GameKingThrone ==
    << <<0, 3, 0, 2>>, <<2, 3, 2, 5>>, <<1, 3, 2, 3>>, <<4, 3, 4, 1>>,
       <<5, 3, 4, 3>>, <<3, 2, 2, 2>>, <<3, 1, 3, 2>>, <<3, 4, 4, 4>>,
       <<3, 5, 3, 4>> >>

\* The king is captured beside the throne.
GameKingBeside ==
    << <<0, 3, 0, 2>>, <<2, 3, 2, 6>>, <<3, 5, 2, 5>>, <<3, 3, 2, 3>>,
       <<0, 2, 2, 2>>, <<4, 3, 4, 2>>, <<2, 5, 2, 4>> >>

\* The king reaches a corner.
GameCorner ==
    << <<0, 3, 0, 5>>, <<2, 3, 2, 6>>, <<1, 3, 1, 6>>, <<3, 3, 0, 3>>,
       <<3, 1, 5, 1>>, <<0, 3, 0, 0>> >>

\* Captures down to two attackers and one defender.
GameDraw ==
    << <<5, 3, 5, 6>>, <<4, 3, 4, 6>>, <<6, 3, 6, 2>>, <<3, 4, 1, 4>>,
       <<3, 5, 1, 5>>, <<2, 3, 2, 6>>, <<1, 3, 1, 4>>, <<2, 6, 2, 1>>,
       <<1, 5, 2, 5>>, <<4, 6, 4, 1>>, <<2, 5, 2, 2>>, <<3, 3, 2, 3>>,
       <<3, 0, 3, 1>>, <<2, 3, 2, 5>>, <<1, 4, 1, 1>>, <<2, 5, 2, 1>>,
       <<1, 1, 1, 0>>, <<2, 1, 2, 0>> >>

\* Every attacker is captured: black has no move.
GameNoMoves ==
    << <<1, 3, 1, 0>>, <<2, 3, 2, 0>>, <<5, 3, 5, 0>>, <<4, 3, 4, 0>>,
       <<6, 3, 6, 1>>, <<2, 0, 3, 0>>, <<3, 6, 5, 6>>, <<3, 2, 6, 2>>,
       <<3, 5, 3, 6>>, <<4, 0, 4, 6>>, <<3, 6, 3, 5>>, <<4, 6, 3, 6>>,
       <<0, 3, 0, 1>>, <<6, 2, 0, 2>> >>

\* One move captures three pieces.
GameTriple ==
    << <<1, 3, 1, 1>>, <<2, 3, 2, 1>>, <<5, 3, 5, 6>>, <<3, 3, 1, 3>>,
       <<3, 1, 5, 1>>, <<4, 3, 4, 1>>, <<3, 0, 3, 1>> >>

\* An attacker is captured against the throne.
GameThrone ==
    << <<3, 5, 4, 5>>, <<4, 3, 4, 4>>, <<5, 3, 4, 3>>, <<3, 2, 5, 2>>,
       <<3, 6, 1, 6>>, <<5, 2, 5, 3>> >>

\* An attacker is captured against the king.
GameKingAnvil ==
    << <<0, 3, 0, 2>>, <<2, 3, 2, 0>>, <<3, 0, 5, 0>>, <<3, 3, 2, 3>>,
       <<0, 2, 2, 2>>, <<2, 0, 2, 1>> >>

\* An attacker is captured against a corner, then a defender.
GameCornerAnvil ==
    << <<5, 3, 5, 6>>, <<4, 3, 4, 6>>, <<3, 5, 2, 5>>, <<4, 6, 5, 6>>,
       <<3, 6, 4, 6>> >>

\* The king moves and captures.
GameKingMover ==
    << <<3, 6, 2, 6>>, <<3, 4, 1, 4>>, <<2, 6, 2, 4>>, <<3, 3, 3, 4>> >>

Lines ==
    << GameCornerAnvil, GameKingMover, GameRepeat,
       GameUndo,
       GameKingOpen,
       GameKingCorner,
       GameKingThrone,
       GameKingBeside,
       GameCorner,
       GameDraw,
       GameNoMoves,
       GameTriple,
       GameThrone,
       GameKingAnvil >>

\* A quiet game of 516 plies: no capture, never over.  Its last four plies
\* shuffle an attacker and a defender forth and back.
LongGame ==
    << <<3, 5, 2, 5>>, <<3, 2, 2, 2>>, <<3, 1, 4, 1>>, <<4, 3, 4, 5>>, <<0,
       3, 0, 5>>, <<2, 2, 3, 2>>, <<4, 1, 4, 3>>, <<2, 3, 2, 4>>, <<3, 6, 5,
       6>>, <<4, 5, 3, 5>>, <<0, 5, 0, 2>>, <<3, 5, 4, 5>>, <<2, 5, 0, 5>>,
       <<2, 4, 2, 3>>, <<0, 5, 1, 5>>, <<3, 4, 1, 4>>, <<5, 3, 5, 4>>, <<1,
       4, 3, 4>>, <<1, 5, 1, 6>>, <<2, 3, 2, 0>>, <<5, 6, 5, 5>>, <<3, 4, 2,
       4>>, <<0, 2, 0, 3>>, <<4, 5, 0, 5>>, <<6, 3, 5, 3>>, <<0, 5, 4, 5>>,
       <<1, 3, 1, 4>>, <<3, 3, 3, 5>>, <<0, 3, 0, 1>>, <<3, 5, 1, 5>>, <<5,
       3, 6, 3>>, <<1, 5, 2, 5>>, <<1, 6, 2, 6>>, <<2, 0, 2, 1>>, <<5, 5, 5,
       6>>, <<4, 5, 4, 4>>, <<1, 4, 1, 1>>, <<2, 4, 3, 4>>, <<5, 4, 5, 2>>,
       <<2, 1, 2, 0>>, <<5, 6, 5, 5>>, <<2, 0, 2, 3>>, <<6, 3, 6, 2>>, <<2,
       5, 4, 5>>, <<5, 5, 5, 3>>, <<4, 5, 5, 5>>, <<1, 1, 1, 5>>, <<2, 3, 2,
       1>>, <<6, 2, 6, 3>>, <<4, 4, 5, 4>>, <<6, 3, 6, 1>>, <<2, 1, 2, 3>>,
       <<3, 0, 1, 0>>, <<2, 3, 2, 1>>, <<4, 3, 4, 5>>, <<2, 1, 4, 1>>, <<5,
       2, 4, 2>>, <<3, 2, 1, 2>>, <<5, 3, 0, 3>>, <<3, 4, 1, 4>>, <<4, 2, 5,
       2>>, <<5, 4, 6, 4>>, <<4, 5, 4, 2>>, <<4, 1, 5, 1>>, <<2, 6, 1, 6>>,
       <<5, 1, 5, 0>>, <<6, 1, 3, 1>>, <<5, 5, 3, 5>>, <<3, 1, 6, 1>>, <<1,
       4, 1, 3>>, <<1, 6, 2, 6>>, <<6, 4, 1, 4>>, <<1, 0, 1, 1>>, <<5, 0, 4,
       0>>, <<2, 6, 5, 6>>, <<1, 3, 2, 3>>, <<6, 1, 6, 2>>, <<2, 3, 2, 6>>,
       <<5, 6, 5, 3>>, <<4, 0, 5, 0>>, <<4, 2, 4, 6>>, <<5, 0, 4, 0>>, <<4,
       6, 4, 4>>, <<1, 4, 0, 4>>, <<1, 1, 5, 1>>, <<4, 0, 2, 0>>, <<5, 1, 2,
       1>>, <<1, 2, 4, 2>>, <<2, 1, 2, 5>>, <<2, 0, 3, 0>>, <<5, 3, 4, 3>>,
       <<3, 0, 3, 4>>, <<0, 1, 3, 1>>, <<2, 6, 1, 6>>, <<6, 2, 6, 5>>, <<3,
       5, 3, 6>>, <<4, 3, 2, 3>>, <<4, 2, 2, 2>>, <<6, 5, 5, 5>>, <<3, 4, 3,
       2>>, <<5, 2, 5, 3>>, <<3, 6, 3, 5>>, <<1, 5, 1, 3>>, <<0, 4, 0, 5>>,
       <<4, 4, 3, 4>>, <<2, 2, 0, 2>>, <<1, 3, 1, 5>>, <<0, 2, 1, 2>>, <<3,
       4, 2, 4>>, <<3, 5, 4, 5>>, <<2, 3, 2, 0>>, <<4, 5, 4, 0>>, <<3, 1, 0,
       1>>, <<4, 0, 4, 2>>, <<2, 4, 5, 4>>, <<0, 5, 0, 4>>, <<5, 3, 6, 3>>,
       <<1, 6, 5, 6>>, <<0, 3, 0, 2>>, <<4, 2, 4, 1>>, <<2, 0, 1, 0>>, <<5,
       6, 3, 6>>, <<1, 0, 2, 0>>, <<3, 2, 5, 2>>, <<2, 5, 2, 3>>, <<1, 2, 4,
       2>>, <<6, 3, 6, 4>>, <<4, 1, 3, 1>>, <<2, 3, 5, 3>>, <<4, 2, 1, 2>>,
       <<5, 5, 6, 5>>, <<0, 4, 0, 5>>, <<2, 0, 1, 0>>, <<3, 1, 3, 2>>, <<5,
       4, 2, 4>>, <<3, 6, 3, 5>>, <<2, 4, 4, 4>>, <<1, 2, 1, 3>>, <<5, 3, 4,
       3>>, <<3, 5, 3, 6>>, <<1, 5, 4, 5>>, <<5, 2, 4, 2>>, <<1, 0, 5, 0>>,
       <<3, 6, 1, 6>>, <<5, 0, 5, 1>>, <<1, 3, 1, 2>>, <<4, 4, 3, 4>>, <<0,
       5, 0, 4>>, <<4, 3, 1, 3>>, <<1, 2, 1, 1>>, <<3, 4, 5, 4>>, <<3, 2, 3,
       3>>, <<4, 5, 4, 4>>, <<0, 4, 1, 4>>, <<6, 5, 0, 5>>, <<4, 2, 4, 1>>,
       <<0, 5, 5, 5>>, <<1, 6, 3, 6>>, <<5, 1, 6, 1>>, <<1, 1, 2, 1>>, <<0,
       2, 0, 5>>, <<3, 6, 3, 4>>, <<5, 5, 4, 5>>, <<3, 4, 3, 5>>, <<4, 5, 4,
       6>>, <<3, 5, 2, 5>>, <<1, 3, 2, 3>>, <<1, 4, 1, 1>>, <<6, 1, 5, 1>>,
       <<4, 1, 4, 3>>, <<5, 1, 5, 2>>, <<2, 5, 3, 5>>, <<5, 2, 2, 2>>, <<3,
       3, 3, 0>>, <<0, 5, 0, 3>>, <<4, 3, 4, 1>>, <<4, 6, 3, 6>>, <<1, 1, 1,
       2>>, <<2, 3, 2, 4>>, <<1, 2, 1, 3>>, <<2, 4, 2, 5>>, <<3, 0, 5, 0>>,
       <<2, 2, 6, 2>>, <<1, 3, 1, 4>>, <<4, 4, 4, 3>>, <<1, 4, 4, 4>>, <<0,
       3, 0, 5>>, <<2, 1, 1, 1>>, <<6, 4, 6, 3>>, <<1, 1, 1, 3>>, <<6, 2, 1,
       2>>, <<1, 3, 1, 6>>, <<2, 5, 2, 3>>, <<4, 4, 2, 4>>, <<0, 1, 2, 1>>,
       <<1, 6, 1, 4>>, <<1, 2, 1, 3>>, <<4, 1, 4, 2>>, <<5, 4, 4, 4>>, <<2,
       4, 2, 6>>, <<2, 3, 2, 2>>, <<5, 0, 5, 6>>, <<4, 3, 2, 3>>, <<4, 2, 4,
       1>>, <<4, 4, 2, 4>>, <<4, 1, 4, 0>>, <<1, 3, 1, 0>>, <<1, 4, 1, 6>>,
       <<2, 4, 0, 4>>, <<3, 5, 3, 0>>, <<2, 2, 3, 2>>, <<5, 6, 5, 2>>, <<1,
       0, 1, 4>>, <<2, 6, 2, 4>>, <<1, 4, 1, 2>>, <<2, 4, 1, 4>>, <<2, 1, 2,
       2>>, <<5, 2, 5, 5>>, <<2, 3, 5, 3>>, <<4, 0, 4, 4>>, <<1, 2, 1, 3>>,
       <<4, 4, 4, 0>>, <<0, 4, 0, 2>>, <<1, 6, 2, 6>>, <<5, 3, 5, 2>>, <<3,
       0, 2, 0>>, <<1, 3, 0, 3>>, <<1, 4, 3, 4>>, <<6, 3, 6, 4>>, <<3, 4, 4,
       4>>, <<0, 3, 5, 3>>, <<5, 5, 2, 5>>, <<3, 6, 4, 6>>, <<4, 0, 4, 3>>,
       <<5, 2, 5, 0>>, <<2, 5, 4, 5>>, <<4, 6, 3, 6>>, <<4, 3, 2, 3>>, <<6,
       4, 6, 3>>, <<4, 4, 4, 1>>, <<6, 3, 6, 2>>, <<4, 1, 1, 1>>, <<3, 2, 3,
       0>>, <<2, 6, 2, 4>>, <<2, 2, 5, 2>>, <<2, 3, 1, 3>>, <<5, 0, 4, 0>>,
       <<1, 3, 1, 6>>, <<3, 0, 3, 1>>, <<4, 5, 4, 3>>, <<4, 0, 4, 2>>, <<2,
       4, 5, 4>>, <<0, 2, 2, 2>>, <<1, 1, 0, 1>>, <<3, 1, 6, 1>>, <<5, 4, 5,
       5>>, <<3, 6, 3, 2>>, <<1, 6, 1, 2>>, <<6, 1, 5, 1>>, <<4, 3, 0, 3>>,
       <<5, 1, 3, 1>>, <<1, 2, 1, 6>>, <<4, 2, 4, 4>>, <<1, 6, 5, 6>>, <<2,
       2, 1, 2>>, <<0, 3, 0, 2>>, <<1, 2, 2, 2>>, <<2, 0, 2, 1>>, <<5, 2, 4,
       2>>, <<2, 1, 1, 1>>, <<4, 2, 5, 2>>, <<1, 1, 1, 5>>, <<5, 2, 5, 1>>,
       <<5, 6, 3, 6>>, <<6, 2, 5, 2>>, <<0, 1, 1, 1>>, <<5, 2, 6, 2>>, <<3,
       6, 3, 4>>, <<5, 1, 5, 0>>, <<5, 5, 4, 5>>, <<2, 2, 2, 3>>, <<4, 5, 6,
       5>>, <<2, 3, 2, 0>>, <<1, 5, 4, 5>>, <<3, 1, 2, 1>>, <<4, 5, 3, 5>>,
       <<2, 1, 2, 2>>, <<1, 1, 1, 6>>, <<6, 2, 6, 3>>, <<1, 6, 1, 2>>, <<2,
       0, 3, 0>>, <<3, 5, 4, 5>>, <<5, 3, 5, 2>>, <<4, 5, 3, 5>>, <<2, 2, 2,
       0>>, <<1, 2, 1, 3>>, <<3, 0, 4, 0>>, <<1, 3, 0, 3>>, <<0, 5, 2, 5>>,
       <<0, 3, 2, 3>>, <<6, 3, 5, 3>>, <<6, 5, 6, 4>>, <<2, 5, 1, 5>>, <<3,
       5, 5, 5>>, <<5, 2, 5, 1>>, <<5, 5, 2, 5>>, <<4, 4, 4, 3>>, <<0, 2, 0,
       4>>, <<5, 3, 5, 4>>, <<3, 4, 1, 4>>, <<3, 2, 0, 2>>, <<0, 4, 0, 3>>,
       <<0, 2, 1, 2>>, <<6, 4, 6, 1>>, <<1, 2, 1, 0>>, <<2, 5, 4, 5>>, <<2,
       0, 2, 2>>, <<2, 3, 2, 4>>, <<2, 2, 5, 2>>, <<6, 1, 6, 4>>, <<4, 3, 5,
       3>>, <<0, 3, 1, 3>>, <<5, 1, 2, 1>>, <<1, 4, 0, 4>>, <<4, 0, 3, 0>>,
       <<2, 4, 2, 5>>, <<2, 1, 2, 4>>, <<4, 5, 4, 6>>, <<5, 0, 5, 1>>, <<1,
       3, 1, 1>>, <<5, 4, 4, 4>>, <<2, 5, 5, 5>>, <<2, 4, 1, 4>>, <<0, 4, 0,
       2>>, <<4, 4, 4, 2>>, <<6, 4, 2, 4>>, <<5, 3, 5, 4>>, <<2, 4, 4, 4>>,
       <<5, 2, 6, 2>>, <<4, 4, 4, 5>>, <<1, 5, 3, 5>>, <<4, 6, 1, 6>>, <<3,
       0, 5, 0>>, <<1, 6, 5, 6>>, <<5, 1, 5, 2>>, <<0, 2, 1, 2>>, <<5, 2, 5,
       1>>, <<5, 6, 3, 6>>, <<3, 5, 1, 5>>, <<4, 5, 4, 4>>, <<1, 0, 2, 0>>,
       <<5, 5, 3, 5>>, <<2, 0, 2, 1>>, <<1, 2, 1, 3>>, <<2, 1, 2, 3>>, <<3,
       5, 3, 0>>, <<6, 2, 6, 3>>, <<4, 4, 2, 4>>, <<2, 3, 4, 3>>, <<3, 0, 2,
       0>>, <<1, 5, 3, 5>>, <<2, 0, 3, 0>>, <<5, 4, 5, 5>>, <<2, 4, 2, 5>>,
       <<5, 5, 5, 2>>, <<2, 5, 2, 6>>, <<1, 4, 1, 5>>, <<3, 0, 2, 0>>, <<1,
       5, 1, 6>>, <<1, 3, 2, 3>>, <<3, 5, 3, 0>>, <<1, 1, 1, 5>>, <<3, 0, 3,
       2>>, <<3, 6, 5, 6>>, <<3, 2, 3, 1>>, <<2, 3, 0, 3>>, <<6, 3, 6, 2>>,
       <<0, 3, 2, 3>>, <<5, 2, 5, 5>>, <<1, 5, 3, 5>>, <<5, 1, 5, 3>>, <<2,
       6, 3, 6>>, <<6, 2, 6, 5>>, <<3, 5, 3, 2>>, <<5, 5, 5, 4>>, <<2, 3, 2,
       1>>, <<4, 3, 4, 4>>, <<3, 6, 3, 5>>, <<5, 3, 5, 1>>, <<3, 5, 3, 4>>,
       <<6, 5, 0, 5>>, <<5, 6, 3, 6>>, <<3, 1, 4, 1>>, <<3, 4, 1, 4>>, <<4,
       2, 4, 3>>, <<3, 6, 3, 5>>, <<4, 1, 4, 0>>, <<3, 5, 1, 5>>, <<4, 0, 3,
       0>>, <<2, 1, 0, 1>>, <<3, 0, 3, 1>>, <<1, 5, 4, 5>>, <<5, 1, 5, 3>>,
       <<3, 2, 4, 2>>, <<0, 5, 0, 3>>, <<2, 0, 2, 3>>, <<3, 1, 3, 5>>, <<0,
       1, 3, 1>>, <<1, 6, 5, 6>>, <<3, 1, 5, 1>>, <<0, 3, 0, 5>>, <<5, 1, 0,
       1>>, <<5, 6, 2, 6>>, <<1, 4, 3, 4>>, <<5, 4, 6, 4>>, <<4, 2, 1, 2>>,
       <<4, 3, 4, 2>>, <<0, 1, 5, 1>>, <<4, 2, 4, 1>>, <<1, 2, 5, 2>>, <<5,
       3, 5, 4>>, <<2, 3, 2, 4>>, <<5, 0, 3, 0>>, <<2, 4, 2, 1>>, <<4, 4, 4,
       3>>, <<5, 1, 5, 0>>, <<2, 6, 2, 5>>, <<5, 2, 1, 2>>, <<3, 5, 3, 6>>,
       <<1, 2, 1, 5>>, <<5, 4, 5, 3>>, <<3, 4, 5, 4>>, <<4, 1, 4, 2>>, <<2,
       1, 5, 1>>, <<4, 2, 1, 2>>, <<4, 5, 4, 6>>, <<3, 0, 2, 0>>, <<5, 1, 2,
       1>>, <<1, 2, 3, 2>>, <<5, 4, 1, 4>>, <<3, 6, 3, 5>>, <<1, 4, 2, 4>>,
       <<4, 3, 0, 3>>, <<5, 0, 3, 0>>, <<5, 3, 5, 6>>, <<4, 6, 4, 5>>, <<0,
       3, 4, 3>>, <<2, 4, 1, 4>>, <<4, 3, 6, 3>>, <<3, 0, 4, 0>>, <<3, 5, 3,
       6>>, <<2, 1, 2, 4>>, <<2, 0, 1, 0>>, <<1, 5, 1, 6>>, <<3, 2, 0, 2>>,
       <<1, 4, 1, 5>>, <<0, 2, 6, 2>>, <<2, 4, 2, 3>>, <<5, 6, 4, 6>>, <<1,
       5, 1, 3>>, <<2, 5, 2, 4>>, <<2, 3, 4, 3>>, <<1, 0, 3, 0>>, <<4, 3, 2,
       3>>, <<3, 0, 3, 5>>, <<2, 3, 2, 1>>, <<2, 4, 5, 4>>, <<4, 5, 4, 3>>,
       <<6, 2, 1, 2>>, <<4, 0, 3, 0>>, <<5, 4, 5, 0>>, <<3, 0, 3, 4>>, <<4,
       6, 4, 5>>, <<1, 3, 1, 4>>, <<3, 6, 4, 6>>, <<1, 4, 1, 3>>, <<1, 2, 6,
       2>>, <<3, 4, 3, 1>>, <<0, 5, 0, 2>>, <<1, 6, 3, 6>>, <<0, 2, 2, 2>>,
       <<4, 3, 4, 4>>, <<2, 2, 2, 3>>, <<2, 1, 0, 1>>, <<2, 3, 2, 5>>, <<1,
       3, 1, 5>>, <<2, 5, 2, 0>>, <<1, 5, 1, 4>>, <<2, 0, 2, 5>>, <<3, 1, 1,
       1>>, <<2, 5, 1, 5>>, <<1, 1, 1, 2>>, <<5, 0, 5, 3>>, <<1, 2, 4, 2>>,
       <<4, 5, 5, 5>>, <<4, 2, 1, 2>>, <<3, 5, 4, 5>>, <<0, 1, 3, 1>>, <<6,
       2, 5, 2>>, <<3, 1, 5, 1>>, <<1, 5, 1, 6>>, <<1, 4, 1, 3>>, <<5, 2, 3,
       2>>, <<1, 2, 2, 2>>, <<3, 2, 3, 1>>, <<2, 2, 5, 2>>, <<3, 1, 3, 5>>,
       <<5, 1, 6, 1>>, <<4, 6, 5, 6>>, <<5, 2, 3, 2>>, <<3, 5, 3, 4>>, <<1,
       3, 0, 3>>, <<1, 6, 2, 6>>, <<0, 3, 2, 3>>, <<2, 6, 1, 6>>, <<2, 3, 0,
       3>> >>

\* The move continues one of the given recorded games.
OnLine(L, m) ==
    \E i \in 1 .. Len(L) :
        /\ Len(trail) < Len(L[i])
        /\ L[i][Len(trail) + 1] = m
        /\ \A j \in 1 .. Len(trail) : L[i][j] = trail[j]

Init ==
    /\ board = new.board
    /\ player = new.player
    /\ hash = new.hash
    /\ king_pos = new.king_pos
    /\ history = new.history
    /\ trail = << >>
    /\ prev = new
    /\ free = 0
    /\ seen = <<new.hash>>
    /\ construction = [seed |-> 0, iterations_per_move |-> 3,
                       generation_range |-> 1, result |-> "built"]
    /\ engine = MCTS_new(0, 3, 1)
    /\ tt_last = [op |-> "none"]
    /\ inserted = {}
    /\ lost = {}
    /\ tt_trail = << >>
    /\ tt_free = 0
    /\ human = [kind |-> "none"]
    /\ search = [pc |-> "idle", run |-> 0]

\* One turn of the game loop: the game is not over, a legal move is chosen
\* and move_piece applies it.  seen records the hash of every state reached.
Play(L, F, m) ==
    /\ OnLine(L, m) \/ free < F
    /\ LET T == move_piece(Self, m)
       IN  /\ board' = T.board
           /\ player' = T.player
           /\ hash' = T.hash
           /\ king_pos' = T.king_pos
           /\ history' = T.history
           /\ seen' = Append(seen, T.hash)
    /\ trail' = Append(trail, m)
    /\ prev' = Self
    /\ free' = IF OnLine(L, m) THEN free ELSE free + 1
    /\ UNCHANGED engine_vars

\* Some move may still be explored from here.
CanExplore(L, F) ==
    \/ free < F
    \/ \E i \in 1 .. Len(L) :
          /\ Len(trail) < Len(L[i])
          /\ \A j \in 1 .. Len(trail) : L[i][j] = trail[j]

MovePiece ==
    /\ CanExplore(Lines, MaxFree)
    /\ check_game_over(Self) = "None"
    /\ \E m \in Range(get_legal_moves(Self)) : Play(Lines, MaxFree, m)
    /\ UNCHANGED <<human, search>>

Next == MovePiece

Spec == Init /\ [][Next]_vars

\* One iteration of the loop of MCTS::simulation on its temp_state: the game
\* is not over, the move list is not empty, one of its moves is applied.
\* The playout modelled starts at the initial position.
SimulationStep ==
    /\ CanExplore(<<LongGame>>, 0)
    /\ check_game_over(Self) = "None"
    /\ get_legal_moves(Self) # << >>
    /\ \E m \in Range(get_legal_moves(Self)) : Play(<<LongGame>>, 0, m)
    /\ UNCHANGED <<human, search>>

SpecPlayout == Init /\ [][SimulationStep]_vars

\* A token of an input line: an unsigned integer, or anything else.
Number(n) == [int |-> TRUE, value |-> n]

Junk == [int |-> FALSE, value |-> 0]

\* The line with a token put in after its first p tokens.
Insert(line, p, token) ==
    [i \in 1 .. Len(line) + 1 |->
        IF i <= p THEN line[i] ELSE IF i = p + 1 THEN token ELSE line[i - 1]]

\* Lines typed in a state.  Four integers: a square that holds a piece and
\* a square of its row or column, up to MaxCoord; the legal moves backwards.
\* The legal moves with one more token, integer or not, somewhere.  Lines
\* with fewer tokens.
InputLines(S) ==
    LET along == { t \in Idx \X Idx \X Coord \X Coord :
                     /\ S.board[t[1]][t[2]] # "."
                     /\ t[1] = t[3] \/ t[2] = t[4] }
        legal == Range(get_legal_moves(S))
        back == { <<t[3], t[4], t[1], t[2]>> : t \in legal }
        Line(t) == <<Number(t[1]), Number(t[2]), Number(t[3]), Number(t[4])>>
    IN  { Line(t) : t \in along \cup back }
        \cup { Insert(Line(t), p, token) :
                 t \in legal, p \in 0 .. 4, token \in {Junk, Number(0)} }
        \cup { << >>, <<Junk>>, <<Number(0), Number(3), Number(0)>>,
                 <<Junk, Junk, Junk, Junk>>,
                 <<Number(MaxCoord), Number(MaxCoord), Number(MaxCoord), Number(0)>> }

\* human_move, the parsing: split_whitespace, filter_map(parse().ok()),
\* collect, try_into [usize; 4].  The result is the array, or << >> for Err.
parse_line(line) ==
    LET numbers == SelectSeq(line, LAMBDA token : token.int)
    IN  IF Len(numbers) = 4
        THEN <<numbers[1].value, numbers[2].value, numbers[3].value, numbers[4].value>>
        ELSE << >>

\* What a line is, read as four whitespace-separated integers.
LineKind(line) ==
    IF \E i \in 1 .. Len(line) : ~line[i].int THEN "not integers"
    ELSE IF Len(line) # 4 THEN "not four"
    ELSE "four integers"

\* One turn of the game loop with a human player, one line read by
\* human_move: the line is parsed; if it parses and is_legal_move accepts
\* the move, move_piece applies it, else the prompt repeats.
HumanMove ==
    /\ CanExplore(Lines, MaxFreeLegal)
    /\ check_game_over(Self) = "None"
    /\ \E line \in InputLines(Self) :
          LET coords == parse_line(line)
          IN  IF coords # << >> /\ is_legal_move(Self, coords)
              THEN /\ Play(Lines, MaxFreeLegal, coords)
                   /\ human' = [kind |-> LineKind(line), accepted |-> TRUE,
                                before |-> Self]
              ELSE /\ human' = [kind |-> LineKind(line), accepted |-> FALSE,
                                before |-> Self]
                   /\ UNCHANGED game_vars
                   /\ UNCHANGED engine_vars
    /\ UNCHANGED search

SpecHuman == Init /\ [][HumanMove]_vars

(***************************************************************************)
(* The construction of an engine.                                          *)
(***************************************************************************)
\* Arguments given to MCTS::new (u32 values, around the bounds of the
\* guard and of the bit fields).
Seeds == {0, 1}

IterationArgs ==
    {0, 1, 2, 1000, MAX_ITER - 1, MAX_ITER, MAX_ITER + 1, 200000, 2 ^ VISITS_BITS}

RangeArgs ==
    {0, 1, 2, 1000, MAX_GEN - 1, MAX_GEN, MAX_GEN + 1, 2 ^ GEN_BITS, 2 ^ 30}

\* No engine yet: MCTS::new is about to be called with some arguments.
InitNew ==
    /\ board = new.board
    /\ player = new.player
    /\ hash = new.hash
    /\ king_pos = new.king_pos
    /\ history = new.history
    /\ trail = << >>
    /\ prev = new
    /\ free = 0
    /\ seen = <<new.hash>>
    /\ construction \in [seed : Seeds, iterations_per_move : IterationArgs,
                          generation_range : RangeArgs, result : {"pending"}]
    /\ engine = << >>
    /\ tt_last = [op |-> "none"]
    /\ inserted = {}
    /\ lost = {}
    /\ tt_trail = << >>
    /\ tt_free = 0
    /\ human = [kind |-> "none"]
    /\ search = [pc |-> "idle", run |-> 0]

\* MCTS::new: the guard panics, or the engine is built.
New ==
    /\ construction.result = "pending"
    /\ LET seed == construction.seed
           iterations_per_move == construction.iterations_per_move
           generation_range == construction.generation_range
       IN  IF new_panics(seed, iterations_per_move, generation_range)
           THEN /\ construction' = [construction EXCEPT !.result = "panic"]
                /\ UNCHANGED engine
           ELSE /\ construction' = [construction EXCEPT !.result = "built"]
                /\ engine' = MCTS_new(seed, iterations_per_move, generation_range)
    /\ UNCHANGED <<tt_last, inserted, lost, tt_trail, tt_free, human, search>>
    /\ UNCHANGED game_vars

SpecNew == InitNew /\ [][New]_vars

(***************************************************************************)
(* The transposition table under the operations the search performs on it. *)
(***************************************************************************)
Tags == {{}} \cup { {t} : t \in 1 .. MaxTag }

Los == {{}} \cup { {l} : l \in 1 .. MaxLo }

Keys == { [hi |-> t, lo |-> l] : t \in Tags, l \in Los }

\* Recorded sequences of table operations.
K(t, l) == [hi |-> IF t = 0 THEN {} ELSE {t}, lo |-> IF l = 0 THEN {} ELSE {l}]

Add(t) == [op |-> "add", key |-> K(t, 0)]

Bp(t, r) == [op |-> "backpropagate", key |-> K(t, 0), result |-> r]

Gen == [op |-> "generation"]

\* A bucket is filled, a key with tag 0 is inserted, then a present key.
TTZeroTag == << Add(1), Add(2), Add(3), Add(4), Add(0), Add(2), Add(5), Add(1) >>

\* Three entries go stale with two visits each, one stays fresh with one
\* visit; then absent keys are inserted until fresh entries are taken.
TTStale ==
    << Add(1), Add(2), Add(3), Add(4),
       Bp(1, WIN), Bp(1, LOSS), Bp(3, DRAW), Bp(3, DRAW), Bp(4, WIN), Bp(4, WIN),
       Gen, Bp(2, WIN), Gen, Add(5), Bp(5, LOSS), Add(1), Add(3), Add(4),
       Bp(4, DRAW), Add(1), Add(3) >>

\* Two buckets, and a key inserted twice.
TTTwoBuckets ==
    << Add(1), [op |-> "add", key |-> K(1, 1)], Add(1), Bp(1, DRAW),
       [op |-> "backpropagate", key |-> K(1, 1), result |-> WIN], Gen,
       [op |-> "add", key |-> K(0, 1)], [op |-> "add", key |-> K(2, 1)] >>

TTLines == << TTZeroTag, TTStale, TTTwoBuckets >>

\* The operation continues one of the recorded sequences.
TTOnLine(o) ==
    \E i \in 1 .. Len(TTLines) :
        /\ Len(tt_trail) < Len(TTLines[i])
        /\ TTLines[i][Len(tt_trail) + 1] = o
        /\ \A j \in 1 .. Len(tt_trail) : TTLines[i][j] = tt_trail[j]

\* The bookkeeping of one table operation.
TTStep(o) ==
    /\ construction.result = "built"
    /\ TTOnLine(o) \/ tt_free < MaxFreeOps
    /\ tt_trail' = Append(tt_trail, o)
    /\ tt_free' = IF TTOnLine(o) THEN tt_free ELSE tt_free + 1
    /\ UNCHANGED <<construction, human, search>>
    /\ UNCHANGED game_vars

\* start_search, its first statement: the next generation.
IncreaseGeneration ==
    /\ TTStep(Gen)
    /\ engine.generation + 1 < MAX_GEN
    /\ engine' = increase_generation(engine)
    /\ tt_last' = [op |-> "generation"]
    /\ UNCHANGED <<inserted, lost>>

\* selection, expansion: add_entry of the selected hash.
Expand ==
    \E key \in Keys :
        LET before == get_bucket(engine.transpositions, key)
            R == add_entry(before, key, engine.generation, engine.generation_bound)
        IN  /\ TTStep([op |-> "add", key |-> key])
            /\ engine' = expand(engine, key)
            /\ tt_last' = [op |-> "add", key |-> key, before |-> before,
                           generation |-> engine.generation,
                           generation_bound |-> engine.generation_bound]
            /\ inserted' = inserted \cup {key}
            /\ lost' = IF get_entry(before, key) # 0 THEN lost
                       ELSE (lost \cup { H \in inserted :
                                           /\ H.lo = key.lo
                                           /\ R.index # 0
                                           /\ before[R.index].hash = H.hi })
                            \ {key}

\* selection, backpropagation: the result is stored in the child's entry.
Backpropagate ==
    \E key \in Keys : \E result \in {WIN, LOSS, DRAW} :
        /\ TTStep([op |-> "backpropagate", key |-> key, result |-> result])
        /\ get_entry(get_bucket(engine.transpositions, key), key) # 0
        /\ engine' = backpropagate(engine, key, result)
        /\ tt_last' = [op |-> "backpropagate", key |-> key,
                       before |-> get_bucket(engine.transpositions, key)]
        /\ UNCHANGED <<inserted, lost>>

NextTT == IncreaseGeneration \/ Expand \/ Backpropagate

SpecTT == Init /\ [][NextTT]_vars

(***************************************************************************)
(* One call of get_move, step by step: the loop of start_search, the calls *)
(* of selection nested on a stack of frames, the loop of simulation, the   *)
(* choice of the move.  The random draws are choices; those explored are   *)
(* the moves of the recorded games below and the moves after which the     *)
(* descent ends without a further draw.                                    *)
(***************************************************************************)
\* Captures down to three attackers and one defender around the king.
GameEndgame ==
    << <<3, 0, 4, 0>>, <<2, 3, 2, 2>>, <<1, 3, 1, 0>>, <<2, 2, 2, 0>>,
       <<0, 3, 0, 4>>, <<2, 0, 3, 0>>, <<3, 6, 5, 6>>, <<4, 3, 4, 6>>,
       <<3, 5, 2, 5>>, <<3, 2, 0, 2>>, <<2, 5, 2, 0>>, <<4, 6, 4, 2>>,
       <<6, 3, 6, 4>>, <<3, 4, 2, 4>>, <<0, 4, 0, 3>>, <<2, 4, 0, 4>>,
       <<2, 0, 2, 4>>, <<0, 4, 1, 4>>, <<2, 4, 2, 5>>, <<4, 2, 1, 2>>,
       <<4, 0, 1, 0>>, <<1, 4, 5, 4>>, <<2, 5, 5, 5>>, <<1, 2, 1, 1>>,
       <<5, 5, 2, 5>>, <<1, 1, 1, 3>>, <<5, 3, 5, 6>>, <<1, 3, 1, 2>>,
       <<2, 5, 2, 3>>, <<1, 2, 1, 3>>, <<5, 6, 5, 5>>, <<0, 2, 5, 2>>,
       <<1, 0, 2, 0>>, <<1, 3, 1, 6>>, <<2, 0, 2, 6>>, <<3, 3, 3, 6>>,
       <<5, 5, 1, 5>>, <<5, 2, 4, 2>>, <<1, 5, 2, 5>>, <<4, 2, 4, 5>>,
       <<6, 4, 2, 4>>, <<4, 5, 4, 6>>, <<2, 4, 3, 4>> >>

\* The three ways the endgame goes on after the defender steps aside.
EndgameDraw ==
    GameEndgame \o << <<4, 6, 5, 6>>, <<2, 5, 0, 5>>, <<3, 6, 3, 5>> >>

EndgameBlack ==
    GameEndgame \o << <<4, 6, 5, 6>>, <<2, 5, 4, 5>>, <<5, 6, 5, 4>>, <<4, 5, 4, 6>> >>

EndgameWhite ==
    GameEndgame \o << <<4, 6, 5, 6>>, <<2, 5, 2, 1>>, <<5, 6, 5, 4>>, <<2, 1, 4, 1>>,
                      <<3, 6, 6, 6>> >>

\* The recorded games the playouts follow; each ends with the game over.
SearchLines ==
    << GameCorner, GameKingOpen, GameDraw, EndgameDraw, EndgameBlack, EndgameWhite >>

\* The games played before get_move is called: none, the endgame, and the
\* game in which the king is one move from a corner.
RootLines == << GameEndgame, SubSeq(GameCorner, 1, 5) >>

Roots == { << >> } \cup Range(RootLines)

\* The values of iterations_per_move explored.
IterationsPerMove == {1, 2, 3, 10}

\* The move continues one of the recorded games from the moves of path,
\* and the game ends within MaxPlayout moves of the root.
OnSearchLine(path, m) ==
    \E i \in 1 .. Len(SearchLines) :
        /\ Len(path) < Len(SearchLines[i])
        /\ Len(SearchLines[i]) <= Len(trail) + MaxPlayout
        /\ SearchLines[i][Len(path) + 1] = m
        /\ \A j \in 1 .. Len(path) : SearchLines[i][j] = path[j]

\* A descent or a playout that enters the state ends there without a draw.
Resolves(T) ==
    \/ check_game_over(T) # "None"
    \/ heuristic_wins_w(T)
    \/ T.player = "B" /\ heuristic_capture_king(T) # << >>

\* The locals of get_move before its first statement.  run and first belong
\* to the comparison of two runs: the run this is, and the move and table
\* the first run ended with.
SearchIdle(run, first) ==
    [pc |-> "idle", run |-> run, first |-> first,
     i |-> 0, root_visits |-> 0, root_wins |-> 0,
     stack |-> << >>, state |-> new, node_visits |-> 0, temp_state |-> new,
     path |-> << >>, value |-> 0, outcome |-> "none",
     last |-> [kind |-> "none"], move |-> << >>, searched |-> FALSE]

InitSearch ==
    \E n \in IterationsPerMove :
            /\ board = new.board
            /\ player = new.player
            /\ hash = new.hash
            /\ king_pos = new.king_pos
            /\ history = new.history
            /\ trail = << >>
            /\ prev = new
            /\ free = 0
            /\ seen = <<new.hash>>
            /\ construction = [seed |-> 0, iterations_per_move |-> n,
                               generation_range |-> 1, result |-> "built"]
            /\ engine = MCTS_new(0, n, 1)
            /\ tt_last = [op |-> "none"]
            /\ inserted = {}
            /\ lost = {}
            /\ tt_trail = << >>
            /\ tt_free = 0
            /\ human = [kind |-> "none"]
            /\ search = SearchIdle(1, [move |-> << >>])

\* What a step of the search leaves alone.
SearchFrame ==
    /\ UNCHANGED game_vars
    /\ UNCHANGED <<construction, tt_last, inserted, lost, tt_trail, tt_free, human>>

\* The game before the engine is asked for a move: a move of one of the
\* games above is played.
RootMove ==
    /\ search.pc = "idle"
    /\ search.run = 1
    /\ check_game_over(Self) = "None"
    /\ \E m \in Range(get_legal_moves(Self)) : Play(RootLines, 0, m)
    /\ UNCHANGED <<human, search>>

\* get_move up to the loop of start_search: a heuristic returns its move,
\* or start_search takes the next generation and reads the root's entry.
GetMove ==
    /\ search.pc = "idle"
    /\ trail \in Roots
    /\ check_game_over(Self) = "None"
    /\ IF heuristic_move(Self) # << >>
       THEN /\ search' = [search EXCEPT !.pc = "done",
                                        !.move = heuristic_move(Self)]
            /\ UNCHANGED engine
       ELSE /\ engine.generation + 1 < MAX_GEN
            /\ engine' = increase_generation(engine)
            /\ search' = [search EXCEPT
                             !.pc = "iteration",
                             !.i = 1,
                             !.root_visits = root_stats(engine, Self).visits,
                             !.root_wins = root_stats(engine, Self).wins]
    /\ SearchFrame

\* start_search, one iteration of its loop: selection is called on the root.
Descend ==
    /\ search.pc = "iteration"
    /\ search.i < engine.iterations_per_move
    /\ search' = [search EXCEPT !.pc = "selection",
                                !.stack = << >>,
                                !.state = Self,
                                !.node_visits = search.root_visits,
                                !.path = trail]
    /\ UNCHANGED engine
    /\ SearchFrame

\* selection returns without a child: the value goes to the caller.
SelectionEnds(kind, value, outcome) ==
    /\ search' = [search EXCEPT
                     !.pc = "return",
                     !.value = value,
                     !.outcome = outcome,
                     !.last = [kind |-> kind, state |-> search.state,
                               value |-> value, outcome |-> outcome]]
    /\ UNCHANGED engine

\* The frame of a call of selection that waits for the value of its child.
Frame(m, key, expansion) ==
    [state |-> search.state, selected_move |-> m, selected_hash |-> key,
     is_expansion_phase |-> expansion, path |-> search.path]

\* selection from its first statement to the call of simulation or of
\* selection on the child, or to its return if there is no such call.
Selection ==
    /\ search.pc = "selection"
    /\ LET state == search.state
           winner == check_game_over(state)
           moves == get_legal_moves(state)
           unvisited == unvisited_moves(engine, state)
           best == best_move_from(engine, state, moves, 1, 0)
       IN  IF winner # "None"
           THEN SelectionEnds("terminal", terminal_value(state, winner), winner)
           ELSE IF heuristic_wins_w(state)
           THEN SelectionEnds("heuristic",
                              IF state.player = "W" THEN WIN ELSE LOSS, "heuristic")
           ELSE IF state.player = "B" /\ heuristic_capture_king(state) # << >>
           THEN SelectionEnds("heuristic", WIN, "heuristic")
           ELSE IF unvisited # << >>
           THEN \E idx \in 1 .. Len(unvisited) :
                   LET m == unvisited[idx]
                       key == Key(next_hash(state, m))
                       next_state == move_piece(state, m)
                   IN  /\ OnSearchLine(search.path, m) \/ Resolves(next_state)
                       /\ engine' = expand(engine, key)
                       /\ search' = [search EXCEPT
                                        !.pc = "simulation",
                                        !.stack = Append(@, Frame(m, key, TRUE)),
                                        !.state = next_state,
                                        !.temp_state = next_state,
                                        !.path = Append(@, m)]
           ELSE IF best # 0
           THEN LET m == moves[best]
                    key == Key(next_hash(state, m))
                IN  /\ ucb_exact(engine, state, search.node_visits)
                    /\ search' = [search EXCEPT
                                     !.stack = Append(@, Frame(m, key, FALSE)),
                                     !.state = move_piece(state, m),
                                     !.node_visits = get_n_visits(lookup(engine, key).entry),
                                     !.path = Append(@, m)]
                    /\ UNCHANGED engine
           ELSE SelectionEnds("no moves",
                              IF state.player = "W" THEN LOSS ELSE WIN, "no moves")
    /\ SearchFrame

\* simulation returns: the value goes to the selection that called it.
SimulationEnds(value, outcome) ==
    search' = [search EXCEPT !.pc = "return", !.value = value, !.outcome = outcome]

\* simulation, one iteration of its loop: the playout is over, or a
\* heuristic holds in the state simulation was called on, or no move is
\* left, or a random move is applied to temp_state.
Simulation ==
    /\ search.pc = "simulation"
    /\ LET state == search.state
           temp_state == search.temp_state
           winner == check_game_over(temp_state)
           moves == get_legal_moves(temp_state)
       IN  IF winner # "None"
           THEN SimulationEnds(simulation_value(state, winner), winner)
           ELSE IF heuristic_wins_w(state)
           THEN SimulationEnds(IF state.player = "W" THEN WIN ELSE LOSS, "heuristic")
           ELSE IF state.player = "B" /\ heuristic_capture_king(state) # << >>
           THEN SimulationEnds(WIN, "heuristic")
           ELSE IF moves = << >>
           THEN SimulationEnds(IF state.player = temp_state.player THEN LOSS ELSE WIN,
                               "no moves")
           ELSE \E m \in Range(moves) :
                   /\ OnSearchLine(search.path, m)
                   /\ search' = [search EXCEPT
                                    !.temp_state = move_piece(temp_state, m),
                                    !.path = Append(@, m)]
    /\ UNCHANGED engine
    /\ SearchFrame

\* selection after the child's value r has come back: the backpropagation
\* to the child's entry and the return of the value to the caller.
SelectionReturn ==
    /\ search.pc = "return"
    /\ search.stack # << >>
    /\ LET frame == search.stack[Len(search.stack)]
           r == search.value
       IN  /\ engine' = backpropagate(engine, frame.selected_hash, r)
           /\ search' = [search EXCEPT
                            !.stack = SubSeq(@, 1, Len(@) - 1),
                            !.state = frame.state,
                            !.path = frame.path,
                            !.value = perspective(r),
                            !.last = [kind |-> "child", state |-> frame.state,
                                      r |-> r, value |-> perspective(r),
                                      outcome |-> search.outcome,
                                      expansion |-> frame.is_expansion_phase]]
    /\ SearchFrame

\* start_search, the end of one iteration: the value of the root is added.
EndDescent ==
    /\ search.pc = "return"
    /\ search.stack = << >>
    /\ search' = [search EXCEPT !.pc = "iteration",
                                !.root_wins = @ + search.value,
                                !.root_visits = @ + 1,
                                !.i = @ + 1]
    /\ UNCHANGED engine
    /\ SearchFrame

\* start_search after its loop and the rest of get_move: the root's entry
\* is written, the most visited child is chosen among the moves, a random
\* move if there is none.
ChooseMove ==
    /\ search.pc = "iteration"
    /\ search.i >= engine.iterations_per_move
    /\ LET E == write_root(engine, Self, search.root_visits, search.root_wins)
           moves == get_legal_moves(Self)
           best_move == most_visited_from(E, Self, moves, 1, 0, 0)
       IN  /\ engine' = E
           /\ \E m \in Range(moves) :
                 /\ best_move # 0 => m = moves[best_move]
                 /\ search' = [search EXCEPT !.pc = "done", !.move = m,
                                             !.searched = TRUE]
    /\ SearchFrame

\* A second engine is built with the same arguments for the same root.
SecondRun ==
    /\ search.pc = "done"
    /\ search.run = 1
    /\ search.searched
    /\ construction.iterations_per_move <= MaxRepeated
    /\ engine' = MCTS_new(construction.seed, construction.iterations_per_move,
                          construction.generation_range)
    /\ search' = SearchIdle(2, [move |-> search.move,
                                transpositions |-> engine.transpositions])
    /\ SearchFrame

NextSearch ==
    \/ RootMove
    \/ GetMove
    \/ Descend
    \/ Selection
    \/ Simulation
    \/ SelectionReturn
    \/ EndDescent
    \/ ChooseMove
    \/ SecondRun

SpecSearch == InitSearch /\ [][NextSearch]_vars

(***************************************************************************)
(* One search on a table whose bucket overflows.  The positions are the    *)
(* nodes of a small game tree, each known by the key of its hash; the      *)
(* Zobrist values are such that the four successors of the root and one    *)
(* of their successors have the same low TT_DIM_BITS bits.                 *)
(***************************************************************************)
\* The root and its hash: Key(TreeRootHash) is K(1, 1).
TreeRootHash == {1}

TreeRoot == Key(TreeRootHash)

\* get_legal_moves and next_hash on the nodes: the keys of the successors,
\* in the order of the moves; none where the game is over.
TreeChildren(key) ==
    IF key = TreeRoot THEN << K(1, 0), K(2, 0), K(3, 0), K(4, 0) >>
    ELSE IF key \in {K(1, 0), K(2, 0), K(3, 0), K(4, 0)} THEN << K(5, 0), K(2, 1) >>
    ELSE << >>

\* The side to move at a node: Black at the root, then in turn.
TreePlayer(key) ==
    IF key = TreeRoot THEN "B"
    ELSE IF key \in {K(1, 0), K(2, 0), K(3, 0), K(4, 0)} THEN "W"
    ELSE "B"

\* check_game_over on the nodes: the two last positions are won by White
\* and drawn.
TreeWinner(key) ==
    IF TreeChildren(key) # << >> THEN "None"
    ELSE IF key = K(5, 0) THEN "W"
    ELSE "D"

TreeState(key) == [player |-> TreePlayer(key), hash |-> key.hi]

\* The results check_game_over can give at the end of a playout from a node.
RECURSIVE TreePlayouts(_)
TreePlayouts(key) ==
    IF TreeChildren(key) = << >> THEN {TreeWinner(key)}
    ELSE UNION { TreePlayouts(c) : c \in Range(TreeChildren(key)) }

\* selection: the child has an entry with visits.
tree_is_visited(E, key) ==
    lookup(E, key).found /\ get_n_visits(lookup(E, key).entry) > 0

\* Mutation of tree_unvisited: only the first child is looked at.
tree_unvisited_first(E, keys) ==
    SelectSeq(SubSeq(keys, 1, 1), LAMBDA c : ~tree_is_visited(E, c))

\* selection: unvisited_moves, on the keys of the children.
tree_unvisited(E, keys) ==
    SelectSeq(keys, LAMBDA c : ~tree_is_visited(E, c))

\* selection: the exploration terms of the visited children agree.
tree_ucb_exact(E, keys, node_visits) ==
    \/ node_visits = 1
    \/ \A a \in Range(keys) : \A b \in Range(keys) :
          (tree_is_visited(E, a) /\ tree_is_visited(E, b)) =>
             get_n_visits(lookup(E, a).entry) = get_n_visits(lookup(E, b).entry)

\* selection, the loop over the moves from the k-th one, on the keys of the
\* children: the index of the visited child of greatest UCB value.
RECURSIVE tree_best_from(_, _, _, _)
tree_best_from(E, keys, k, best) ==
    IF k > Len(keys) THEN best
    ELSE LET better ==
                 \/ best = 0
                 \/ ucb_greater(lookup(E, keys[k]).entry, lookup(E, keys[best]).entry)
         IN  tree_best_from(E, keys, k + 1,
                 IF tree_is_visited(E, keys[k]) /\ better THEN k ELSE best)

\* The arguments of MCTS::new: iterations_per_move and generation_range.
TreeArgs == {<<2, 0>>, <<2, 1>>, <<2, 2>>, <<6, 1>>, <<8, 1>>}

InitDescent ==
    \E a \in TreeArgs :
            /\ board = new.board
            /\ player = new.player
            /\ hash = new.hash
            /\ king_pos = new.king_pos
            /\ history = new.history
            /\ trail = << >>
            /\ prev = new
            /\ free = 0
            /\ seen = <<new.hash>>
            /\ construction = [seed |-> 0, iterations_per_move |-> a[1],
                               generation_range |-> a[2], result |-> "built"]
            /\ engine = MCTS_new(0, a[1], a[2])
            /\ tt_last = [op |-> "none"]
            /\ inserted = {}
            /\ lost = {}
            /\ tt_trail = << >>
            /\ tt_free = 0
            /\ human = [kind |-> "none"]
            /\ search = [pc |-> "idle", run |-> 0]

\* start_search up to its loop: the next generation, the statistics of the
\* root.  Searches follow one another on the same engine.  stored is the
\* root's entry as the search finds it, calls and returned count the calls
\* of selection on the root and add up their values, inserts and
\* simulations count the calls of add_entry and of simulation in a descent.
TreeSearch ==
    /\ \/ search.pc = "idle"
       \/ /\ search.pc = "done"
          /\ engine.iterations_per_move <= MaxRepeated
          /\ engine.generation < MaxSearches
    /\ engine.generation + 1 < MAX_GEN
    /\ engine' = increase_generation(engine)
    /\ LET stats == root_stats(engine', TreeState(TreeRoot))
       IN  search' = [pc |-> "iteration", run |-> search.run + 1, i |-> 1,
                      root_visits |-> stats.visits, root_wins |-> stats.wins,
                      stack |-> << >>, node |-> TreeRoot, node_visits |-> 0,
                      value |-> 0, last |-> [kind |-> "none"],
                      stored |-> lookup(engine, TreeRoot), calls |-> 0,
                      returned |-> 0, inserts |-> 0, simulations |-> 0]
    /\ SearchFrame

\* start_search, one iteration of its loop: selection is called on the root.
TreeDescend ==
    /\ search.pc = "iteration"
    /\ search.i < engine.iterations_per_move
    /\ search' = [search EXCEPT !.pc = "selection",
                                !.stack = << >>,
                                !.node = TreeRoot,
                                !.node_visits = search.root_visits,
                                !.calls = @ + 1,
                                !.last = [kind |-> "none"],
                                !.inserts = 0,
                                !.simulations = 0]
    /\ UNCHANGED engine
    /\ SearchFrame

\* selection from its first statement to its recursive call, or to the end
\* of the simulation of the child it inserts, or to its return where the
\* game is over.
TreeSelection ==
    /\ search.pc = "selection"
    /\ LET node == search.node
           keys == TreeChildren(node)
           unvisited == tree_unvisited(engine, keys)
           best == tree_best_from(engine, keys, 1, 0)
       IN  IF TreeWinner(node) # "None"
           THEN /\ search' = [search EXCEPT
                                 !.pc = "return",
                                 !.value = terminal_value(TreeState(node),
                                                          TreeWinner(node))]
                /\ UNCHANGED engine
           ELSE IF unvisited # << >>
           THEN \E idx \in 1 .. Len(unvisited) :
                \E winner \in TreePlayouts(unvisited[idx]) :
                   LET key == unvisited[idx]
                   IN  /\ engine' = expand(engine, key)
                       /\ search' = [search EXCEPT
                                        !.pc = "return",
                                        !.stack = Append(@,
                                            [node |-> node, selected_hash |-> key,
                                             is_expansion_phase |-> TRUE]),
                                        !.value = simulation_value(TreeState(key),
                                                                   winner),
                                        !.inserts = @ + 1,
                                        !.simulations = @ + 1]
           ELSE /\ best # 0
                /\ tree_ucb_exact(engine, keys, search.node_visits)
                /\ search' = [search EXCEPT
                                 !.stack = Append(@,
                                     [node |-> node, selected_hash |-> keys[best],
                                      is_expansion_phase |-> FALSE]),
                                 !.node = keys[best],
                                 !.node_visits =
                                     get_n_visits(lookup(engine, keys[best]).entry)]
                /\ UNCHANGED engine
    /\ SearchFrame

\* selection after the child's value r has come back: the backpropagation
\* to the child's entry, dropped if the entry is not found, and the return
\* of the value to the caller.
TreeReturn ==
    /\ search.pc = "return"
    /\ search.stack # << >>
    /\ LET frame == search.stack[Len(search.stack)]
           r == search.value
       IN  /\ engine' = backpropagate(engine, frame.selected_hash, r)
           /\ search' = [search EXCEPT
                            !.stack = SubSeq(@, 1, Len(@) - 1),
                            !.node = frame.node,
                            !.value = perspective(r),
                            !.last = [kind |-> "child",
                                      selected_hash |-> frame.selected_hash,
                                      expansion |-> frame.is_expansion_phase,
                                      found |-> lookup(engine,
                                                       frame.selected_hash).found,
                                      before |-> engine.transpositions, r |-> r]]
    /\ SearchFrame

\* start_search, the end of one iteration: the value of the root is added.
TreeEndDescent ==
    /\ search.pc = "return"
    /\ search.stack = << >>
    /\ search' = [search EXCEPT !.pc = "iteration",
                                !.root_wins = @ + search.value,
                                !.root_visits = @ + 1,
                                !.i = @ + 1,
                                !.returned = @ + search.value]
    /\ UNCHANGED engine
    /\ SearchFrame

\* start_search after its loop: the root's entry is written.
TreeWriteRoot ==
    /\ search.pc = "iteration"
    /\ search.i >= engine.iterations_per_move
    /\ engine' = write_root(engine, TreeState(TreeRoot),
                            search.root_visits, search.root_wins)
    /\ search' = [search EXCEPT !.pc = "done"]
    /\ SearchFrame

NextDescent ==
    \/ TreeSearch
    \/ TreeDescend
    \/ TreeSelection
    \/ TreeReturn
    \/ TreeEndDescent
    \/ TreeWriteRoot

SpecDescent == InitDescent /\ [][NextDescent]_vars

(***************************************************************************)
(* The setters of TT_entry, called one after another on one entry with     *)
(* arguments over the range of their parameter types.                      *)
(***************************************************************************)
\* The calls made on one entry.
MaxSetterCalls == 2

\* Entries: all zero, every field at the top of its range, and one between.
EntryValues ==
    { TT_entry_default,
      [hash |-> {5}, generation |-> 2 ^ GEN_BITS - 1,
       n_visits |-> 2 ^ VISITS_BITS - 1, n_wins |-> 2 ^ WINS_BITS - 1],
      [hash |-> {3}, generation |-> 2, n_visits |-> 6, n_wins |-> 2 ^ WINS_BITS - 4] }

\* u32 values of generation: inside the field, at its top, and above it.
GenerationArgs ==
    {0, 1, MAX_GEN - 1, 2 ^ GEN_BITS - 1, 2 ^ GEN_BITS, 3 * 2 ^ GEN_BITS + 5}

\* usize values of visits and isize values of wins, inside and outside the
\* fields.
VisitsArgs == {0, 1, 2 ^ VISITS_BITS - 1, 2 ^ VISITS_BITS, 2 ^ VISITS_BITS + 3}

WinsArgs ==
    {0, 1, -1, 2 ^ (WINS_BITS - 1) - 1, 0 - 2 ^ (WINS_BITS - 1), 2 ^ (WINS_BITS - 1),
     1 - 2 ^ (WINS_BITS - 1)}

InitEntry ==
    \E e \in EntryValues :
        /\ board = new.board
        /\ player = new.player
        /\ hash = new.hash
        /\ king_pos = new.king_pos
        /\ history = new.history
        /\ trail = << >>
        /\ prev = new
        /\ free = 0
        /\ seen = <<new.hash>>
        /\ construction = [seed |-> 0, iterations_per_move |-> 3,
                           generation_range |-> 1, result |-> "built"]
        /\ engine = MCTS_new(0, 3, 1)
        /\ tt_last = [op |-> "none", entry |-> e, before |-> e]
        /\ inserted = {}
        /\ lost = {}
        /\ tt_trail = << >>
        /\ tt_free = 0
        /\ human = [kind |-> "none"]
        /\ search = [pc |-> "idle", run |-> 0]

\* One call of a setter: tt_last holds its argument and the entry before
\* and after it.
SetterCall(op, arg, result) ==
    /\ tt_free' = tt_free + 1
    /\ tt_last' = [op |-> op, arg |-> arg, entry |-> result,
                   before |-> tt_last.entry]
    /\ UNCHANGED game_vars
    /\ UNCHANGED <<construction, engine, inserted, lost, tt_trail, human, search>>

SetHash ==
    /\ tt_free < MaxSetterCalls
    /\ \E key \in Keys :
          SetterCall("set_hash", key, set_hash(tt_last.entry, key))

SetGeneration ==
    /\ tt_free < MaxSetterCalls
    /\ \E generation \in GenerationArgs :
          SetterCall("set_generation", generation,
                     set_generation(tt_last.entry, generation))

SetNVisits ==
    /\ tt_free < MaxSetterCalls
    /\ \E value \in VisitsArgs :
          SetterCall("set_n_visits", value, set_n_visits(tt_last.entry, value))

SetNWins ==
    /\ tt_free < MaxSetterCalls
    /\ \E value \in WinsArgs :
          SetterCall("set_n_wins", value, set_n_wins(tt_last.entry, value))

AddNVisits ==
    /\ tt_free < MaxSetterCalls
    /\ \E increase \in VisitsArgs :
          SetterCall("add_n_visits", increase,
                     add_n_visits(tt_last.entry, increase))

AddNWins ==
    /\ tt_free < MaxSetterCalls
    /\ \E increase \in WinsArgs :
          SetterCall("add_n_wins", increase, add_n_wins(tt_last.entry, increase))

NextEntry ==
    \/ SetHash
    \/ SetGeneration
    \/ SetNVisits
    \/ SetNWins
    \/ AddNVisits
    \/ AddNWins

SpecEntry == InitEntry /\ [][NextEntry]_vars

(***************************************************************************)
(* The visit count of one position over the searches of a game, each       *)
(* search taken as a whole: the position is the child that every descent   *)
(* of the search selects, until it is played and becomes the root of one   *)
(* search; a position of the history is not reached again.                 *)
(***************************************************************************)
\* start_search: the passes of the loop over 1..iterations_per_move.
descents(E) ==
    IF E.iterations_per_move >= 1 THEN E.iterations_per_move - 1 ELSE 0

\* MCTS::new was called with arguments it accepts; the table is empty.
InitVisits ==
    \E iterations_per_move \in IterationArgs :
        /\ ~new_panics(0, iterations_per_move, 1)
        /\ board = new.board
        /\ player = new.player
        /\ hash = new.hash
        /\ king_pos = new.king_pos
        /\ history = new.history
        /\ trail = << >>
        /\ prev = new
        /\ free = 0
        /\ seen = <<new.hash>>
        /\ construction = [seed |-> 0, iterations_per_move |-> iterations_per_move,
                           generation_range |-> 1, result |-> "built"]
        /\ engine = MCTS_new(0, iterations_per_move, 1)
        /\ tt_last = [op |-> "none", arg |-> 0, entry |-> TT_entry_default,
                      before |-> TT_entry_default]
        /\ inserted = {}
        /\ lost = {}
        /\ tt_trail = << >>
        /\ tt_free = 0
        /\ human = [kind |-> "none"]
        /\ search = [pc |-> "idle", run |-> 0]

\* What a search leaves for the position: tt_last holds the largest value
\* handed to set_n_visits for its entry, and the entry before and after.
VisitsFrame(op, arg) ==
    /\ tt_last' = [op |-> op, arg |-> arg,
                   entry |-> lookup(engine', TreeRoot).entry,
                   before |-> lookup(engine, TreeRoot).entry]
    /\ search' = [search EXCEPT !.pc = op, !.run = @ + 1]
    /\ UNCHANGED game_vars
    /\ UNCHANGED <<construction, inserted, lost, tt_trail, tt_free, human>>

\* start_search with the position as root: the visits read from the table,
\* one more for every descent, written by set_n_visits.
SearchAsRoot ==
    /\ search.pc # "root"
    /\ engine.generation + 1 < MAX_GEN
    /\ LET E == increase_generation(engine)
           stats == root_stats(E, TreeState(TreeRoot))
           root_visits == stats.visits + descents(E)
       IN  /\ engine' = write_root(E, TreeState(TreeRoot), root_visits, stats.wins)
           /\ VisitsFrame("root", root_visits)

\* start_search from the parent of the position, every descent going
\* through it: the first descent inserts it if it has no visits, and every
\* descent ends with add_n_visits(1) on its entry.  The calls of one search
\* are taken together: they add up to add_n_visits(descents), and the last
\* of them hands set_n_visits the sum.
SearchAsChild ==
    /\ search.pc # "root"
    /\ engine.generation + 1 < MAX_GEN
    /\ descents(engine) > 0
    /\ LET E == expand(increase_generation(engine), TreeRoot)
           bucket == get_bucket(E.transpositions, TreeRoot)
           i == get_entry(bucket, TreeRoot)
       IN  /\ i # 0
           /\ engine' =
                 [E EXCEPT !.transpositions =
                     put_bucket(@, TreeRoot,
                         [bucket EXCEPT ![i] =
                             add_n_visits(set_generation(@, E.generation),
                                          descents(E))])]
           /\ VisitsFrame("child", get_n_visits(bucket[i]) + descents(E))

NextVisits ==
    \/ SearchAsRoot
    \/ SearchAsChild

SpecVisits == InitVisits /\ [][NextVisits]_vars

(***************************************************************************)
(* A game between the engine, which has the attackers, and an opponent.    *)
(* The engine is built with iterations_per_move = 1: start_search makes no *)
(* descent, and get_move returns the move of a heuristic, the most visited *)
(* child the table holds, or a random legal move.                          *)
(***************************************************************************)
\* A game of 514 plies without capture in which no position offers the side
\* to move the move of a heuristic of get_move; the history is full after
\* ply 511.
EngineGame ==
    << <<1, 3, 1, 4>>, <<2, 3, 2, 6>>, <<1, 4, 1, 0>>, <<2, 6, 2, 5>>, <<3,
       6, 5, 6>>, <<2, 5, 2, 6>>, <<5, 3, 5, 5>>, <<3, 2, 1, 2>>, <<3, 0, 5,
       0>>, <<2, 6, 1, 6>>, <<5, 5, 5, 4>>, <<3, 3, 2, 3>>, <<5, 0, 2, 0>>,
       <<3, 4, 3, 2>>, <<2, 0, 2, 2>>, <<1, 6, 3, 6>>, <<3, 5, 2, 5>>, <<4,
       3, 4, 5>>, <<6, 3, 6, 2>>, <<4, 5, 4, 1>>, <<2, 5, 2, 4>>, <<1, 2, 1,
       3>>, <<1, 0, 1, 1>>, <<2, 3, 3, 3>>, <<2, 4, 3, 4>>, <<1, 3, 1, 5>>,
       <<3, 4, 1, 4>>, <<1, 5, 1, 6>>, <<2, 2, 1, 2>>, <<1, 6, 1, 5>>, <<5,
       4, 5, 2>>, <<4, 1, 4, 5>>, <<5, 2, 5, 3>>, <<4, 5, 4, 4>>, <<0, 3, 2,
       3>>, <<3, 6, 1, 6>>, <<5, 6, 5, 5>>, <<4, 4, 4, 1>>, <<6, 2, 4, 2>>,
       <<3, 3, 3, 6>>, <<5, 5, 5, 6>>, <<4, 1, 5, 1>>, <<1, 4, 2, 4>>, <<3,
       6, 3, 4>>, <<5, 3, 5, 4>>, <<1, 5, 4, 5>>, <<5, 6, 4, 6>>, <<5, 1, 6,
       1>>, <<3, 1, 5, 1>>, <<4, 5, 1, 5>>, <<1, 1, 2, 1>>, <<1, 5, 0, 5>>,
       <<2, 4, 2, 5>>, <<6, 1, 6, 2>>, <<2, 5, 3, 5>>, <<0, 5, 2, 5>>, <<2,
       3, 2, 4>>, <<3, 4, 3, 3>>, <<2, 1, 0, 1>>, <<1, 6, 1, 4>>, <<0, 1, 0,
       5>>, <<3, 2, 3, 1>>, <<4, 6, 4, 4>>, <<3, 1, 0, 1>>, <<4, 2, 4, 0>>,
       <<0, 1, 1, 1>>, <<4, 4, 4, 6>>, <<3, 3, 3, 2>>, <<2, 4, 2, 0>>, <<2,
       5, 2, 6>>, <<0, 5, 1, 5>>, <<3, 2, 3, 3>>, <<1, 5, 0, 5>>, <<6, 2, 6,
       3>>, <<1, 2, 6, 2>>, <<6, 3, 4, 3>>, <<3, 5, 2, 5>>, <<1, 4, 1, 2>>,
       <<0, 5, 0, 1>>, <<3, 3, 2, 3>>, <<4, 0, 3, 0>>, <<4, 3, 4, 2>>, <<3,
       0, 3, 1>>, <<2, 3, 3, 3>>, <<0, 1, 0, 3>>, <<1, 2, 0, 2>>, <<5, 4, 3,
       4>>, <<1, 1, 1, 3>>, <<5, 1, 5, 6>>, <<2, 6, 3, 6>>, <<3, 1, 1, 1>>,
       <<4, 2, 4, 5>>, <<0, 3, 0, 5>>, <<0, 2, 4, 2>>, <<5, 6, 5, 1>>, <<4,
       5, 5, 5>>, <<3, 4, 2, 4>>, <<5, 5, 5, 4>>, <<6, 2, 6, 5>>, <<1, 3, 1,
       4>>, <<4, 6, 4, 3>>, <<5, 4, 5, 6>>, <<2, 0, 1, 0>>, <<1, 4, 1, 3>>,
       <<1, 0, 2, 0>>, <<5, 6, 4, 6>>, <<2, 5, 5, 5>>, <<4, 2, 2, 2>>, <<0,
       5, 1, 5>>, <<4, 6, 4, 4>>, <<5, 5, 5, 6>>, <<4, 4, 5, 4>>, <<4, 3, 6,
       3>>, <<3, 3, 5, 3>>, <<6, 3, 6, 1>>, <<3, 6, 3, 4>>, <<1, 1, 2, 1>>,
       <<5, 3, 4, 3>>, <<1, 5, 4, 5>>, <<2, 2, 0, 2>>, <<5, 6, 4, 6>>, <<0,
       2, 2, 2>>, <<6, 1, 6, 2>>, <<2, 2, 4, 2>>, <<4, 6, 1, 6>>, <<5, 4, 4,
       4>>, <<2, 1, 2, 2>>, <<1, 3, 2, 3>>, <<2, 2, 1, 2>>, <<3, 4, 3, 5>>,
       <<6, 2, 6, 1>>, <<4, 2, 4, 1>>, <<5, 1, 5, 2>>, <<3, 5, 3, 4>>, <<1,
       6, 5, 6>>, <<2, 3, 0, 3>>, <<1, 2, 1, 3>>, <<3, 4, 3, 6>>, <<5, 2, 4,
       2>>, <<3, 6, 3, 1>>, <<2, 4, 1, 4>>, <<4, 3, 3, 3>>, <<1, 3, 1, 1>>,
       <<0, 3, 0, 2>>, <<6, 1, 6, 2>>, <<4, 4, 5, 4>>, <<1, 4, 1, 3>>, <<5,
       4, 5, 1>>, <<4, 5, 0, 5>>, <<5, 1, 5, 5>>, <<1, 3, 1, 4>>, <<5, 5, 5,
       0>>, <<6, 5, 1, 5>>, <<3, 3, 2, 3>>, <<5, 6, 3, 6>>, <<4, 1, 5, 1>>,
       <<4, 2, 4, 6>>, <<5, 1, 4, 1>>, <<1, 4, 4, 4>>, <<0, 2, 0, 3>>, <<6,
       2, 6, 3>>, <<3, 1, 3, 4>>, <<1, 1, 1, 4>>, <<5, 0, 5, 6>>, <<4, 4, 5,
       4>>, <<2, 3, 4, 3>>, <<2, 0, 2, 2>>, <<3, 4, 3, 2>>, <<2, 2, 2, 3>>,
       <<3, 2, 3, 1>>, <<2, 3, 2, 2>>, <<3, 1, 3, 5>>, <<2, 2, 3, 2>>, <<3,
       5, 5, 5>>, <<3, 2, 3, 0>>, <<5, 5, 3, 5>>, <<6, 3, 6, 1>>, <<4, 1, 4,
       0>>, <<0, 5, 0, 4>>, <<4, 3, 4, 2>>, <<5, 4, 5, 2>>, <<4, 2, 0, 2>>,
       <<6, 1, 0, 1>>, <<4, 0, 4, 1>>, <<1, 5, 2, 5>>, <<4, 1, 6, 1>>, <<1,
       4, 1, 5>>, <<6, 1, 6, 4>>, <<0, 4, 4, 4>>, <<0, 3, 1, 3>>, <<4, 4, 0,
       4>>, <<0, 2, 3, 2>>, <<2, 5, 2, 1>>, <<1, 3, 1, 4>>, <<2, 1, 2, 2>>,
       <<6, 4, 2, 4>>, <<3, 0, 3, 1>>, <<3, 2, 3, 3>>, <<4, 6, 4, 3>>, <<3,
       3, 3, 4>>, <<5, 2, 5, 4>>, <<2, 4, 2, 3>>, <<3, 1, 3, 0>>, <<2, 3, 0,
       3>>, <<4, 3, 6, 3>>, <<1, 4, 2, 4>>, <<6, 3, 1, 3>>, <<3, 5, 2, 5>>,
       <<1, 3, 2, 3>>, <<3, 4, 3, 3>>, <<0, 1, 6, 1>>, <<0, 3, 0, 1>>, <<5,
       4, 4, 4>>, <<5, 6, 5, 1>>, <<4, 4, 4, 5>>, <<2, 5, 3, 5>>, <<2, 2, 3,
       2>>, <<2, 4, 1, 4>>, <<1, 5, 0, 5>>, <<0, 1, 0, 2>>, <<3, 6, 4, 6>>,
       <<0, 2, 0, 1>>, <<2, 3, 2, 2>>, <<1, 4, 1, 5>>, <<3, 0, 3, 1>>, <<3,
       3, 3, 4>>, <<2, 2, 2, 6>>, <<1, 5, 1, 4>>, <<2, 6, 2, 0>>, <<5, 1, 5,
       2>>, <<3, 2, 4, 2>>, <<5, 2, 5, 4>>, <<4, 5, 4, 4>>, <<1, 4, 2, 4>>,
       <<2, 0, 2, 3>>, <<3, 5, 1, 5>>, <<4, 6, 2, 6>>, <<2, 4, 1, 4>>, <<4,
       2, 1, 2>>, <<3, 4, 3, 2>>, <<2, 3, 6, 3>>, <<3, 2, 3, 3>>, <<6, 1, 6,
       2>>, <<1, 5, 1, 6>>, <<0, 5, 2, 5>>, <<5, 4, 5, 0>>, <<2, 6, 3, 6>>,
       <<1, 4, 1, 3>>, <<3, 6, 3, 4>>, <<0, 1, 2, 1>>, <<2, 5, 4, 5>>, <<3,
       3, 3, 2>>, <<4, 4, 4, 1>>, <<5, 0, 5, 6>>, <<4, 1, 4, 2>>, <<3, 2, 3,
       3>>, <<4, 5, 4, 3>>, <<1, 6, 3, 6>>, <<1, 2, 0, 2>>, <<1, 3, 1, 6>>,
       <<4, 3, 4, 4>>, <<1, 6, 1, 1>>, <<4, 4, 6, 4>>, <<3, 3, 1, 3>>, <<3,
       4, 2, 4>>, <<3, 6, 3, 2>>, <<6, 4, 6, 5>>, <<3, 2, 2, 2>>, <<3, 1, 6,
       1>>, <<1, 3, 3, 3>>, <<6, 1, 3, 1>>, <<1, 1, 1, 2>>, <<3, 1, 3, 2>>,
       <<5, 6, 3, 6>>, <<6, 3, 4, 3>>, <<3, 3, 3, 4>>, <<4, 3, 4, 4>>, <<3,
       4, 3, 5>>, <<3, 2, 3, 4>>, <<2, 1, 2, 0>>, <<2, 4, 1, 4>>, <<3, 5, 2,
       5>>, <<3, 4, 3, 5>>, <<2, 5, 2, 6>>, <<1, 4, 1, 6>>, <<2, 0, 2, 1>>,
       <<3, 5, 0, 5>>, <<2, 2, 2, 4>>, <<4, 4, 4, 3>>, <<2, 1, 3, 1>>, <<6,
       5, 5, 5>>, <<3, 6, 3, 2>>, <<4, 3, 4, 6>>, <<2, 6, 2, 5>>, <<0, 5, 1,
       5>>, <<2, 5, 3, 5>>, <<4, 2, 4, 1>>, <<1, 2, 1, 0>>, <<4, 6, 4, 3>>,
       <<3, 1, 2, 1>>, <<1, 5, 0, 5>>, <<3, 2, 1, 2>>, <<5, 5, 4, 5>>, <<3,
       5, 3, 2>>, <<6, 2, 6, 4>>, <<1, 2, 1, 3>>, <<4, 5, 3, 5>>, <<2, 4, 3,
       4>>, <<6, 4, 6, 2>>, <<3, 4, 5, 4>>, <<0, 4, 3, 4>>, <<3, 2, 3, 3>>,
       <<0, 2, 3, 2>>, <<1, 3, 1, 2>>, <<1, 6, 1, 3>>, <<2, 1, 2, 3>>, <<3,
       2, 3, 0>>, <<5, 4, 5, 1>>, <<4, 1, 3, 1>>, <<5, 1, 4, 1>>, <<3, 5, 1,
       5>>, <<2, 3, 2, 0>>, <<4, 3, 4, 4>>, <<1, 2, 2, 2>>, <<1, 5, 3, 5>>,
       <<4, 1, 4, 3>>, <<3, 0, 5, 0>>, <<1, 0, 1, 2>>, <<0, 5, 2, 5>>, <<1,
       2, 1, 0>>, <<4, 4, 5, 4>>, <<2, 2, 0, 2>>, <<6, 2, 1, 2>>, <<0, 2, 0,
       4>>, <<1, 2, 6, 2>>, <<0, 4, 0, 3>>, <<3, 4, 1, 4>>, <<4, 3, 4, 1>>,
       <<2, 5, 2, 4>>, <<2, 0, 2, 2>>, <<2, 4, 2, 3>>, <<4, 1, 4, 3>>, <<6,
       2, 3, 2>>, <<0, 3, 0, 1>>, <<3, 2, 6, 2>>, <<0, 1, 0, 4>>, <<5, 4, 5,
       1>>, <<4, 3, 4, 2>>, <<6, 2, 6, 5>>, <<4, 2, 3, 2>>, <<5, 0, 4, 0>>,
       <<3, 2, 4, 2>>, <<5, 1, 4, 1>>, <<4, 2, 4, 3>>, <<3, 5, 3, 4>>, <<0,
       4, 0, 3>>, <<6, 5, 4, 5>>, <<4, 3, 4, 4>>, <<4, 1, 6, 1>>, <<2, 2, 4,
       2>>, <<3, 4, 3, 6>>, <<0, 3, 0, 5>>, <<2, 3, 2, 5>>, <<3, 3, 3, 2>>,
       <<3, 6, 1, 6>>, <<3, 2, 2, 2>>, <<3, 1, 2, 1>>, <<2, 2, 3, 2>>, <<1,
       6, 5, 6>>, <<4, 4, 6, 4>>, <<1, 4, 1, 5>>, <<3, 2, 3, 3>>, <<4, 5, 3,
       5>>, <<4, 2, 3, 2>>, <<3, 5, 3, 4>>, <<1, 0, 3, 0>>, <<2, 1, 1, 1>>,
       <<3, 3, 2, 3>>, <<6, 1, 2, 1>>, <<3, 2, 2, 2>>, <<1, 3, 1, 4>>, <<0,
       5, 0, 1>>, <<3, 4, 3, 1>>, <<0, 1, 0, 4>>, <<1, 4, 1, 2>>, <<6, 4, 6,
       1>>, <<1, 5, 1, 4>>, <<3, 0, 1, 0>>, <<2, 5, 5, 5>>, <<2, 3, 2, 5>>,
       <<1, 4, 1, 5>>, <<2, 5, 3, 5>>, <<4, 0, 4, 1>>, <<0, 4, 3, 4>>, <<5,
       6, 1, 6>>, <<6, 1, 6, 3>>, <<1, 2, 1, 3>>, <<3, 4, 4, 4>>, <<5, 5, 4,
       5>>, <<3, 5, 3, 2>>, <<4, 5, 4, 6>>, <<4, 4, 4, 2>>, <<3, 1, 3, 0>>,
       <<6, 3, 6, 5>>, <<4, 6, 3, 6>>, <<6, 5, 6, 3>>, <<1, 5, 3, 5>>, <<2,
       2, 2, 3>>, <<2, 1, 2, 2>>, <<4, 2, 4, 6>>, <<1, 1, 2, 1>>, <<4, 6, 4,
       3>>, <<2, 1, 1, 1>>, <<3, 2, 3, 3>>, <<2, 2, 5, 2>>, <<4, 3, 4, 2>>,
       <<4, 1, 5, 1>>, <<1, 0, 2, 0>>, <<5, 1, 4, 1>>, <<2, 3, 2, 5>>, <<3,
       6, 4, 6>>, <<2, 5, 0, 5>>, <<4, 1, 6, 1>>, <<0, 5, 0, 1>>, <<1, 6, 3,
       6>>, <<0, 1, 0, 2>>, <<3, 5, 5, 5>>, <<0, 2, 0, 1>>, <<4, 6, 4, 4>>,
       <<2, 0, 2, 5>>, <<4, 4, 4, 3>>, <<0, 1, 0, 3>>, <<4, 3, 4, 6>>, <<4,
       2, 4, 5>>, <<5, 5, 5, 4>>, <<0, 3, 0, 2>>, <<5, 4, 1, 4>>, <<0, 2, 2,
       2>>, <<3, 0, 5, 0>>, <<6, 3, 6, 4>>, <<1, 1, 3, 1>>, <<4, 5, 6, 5>>,
       <<5, 2, 6, 2>>, <<2, 2, 2, 3>>, <<5, 0, 4, 0>>, <<2, 5, 1, 5>>, <<4,
       6, 5, 6>>, <<6, 5, 4, 5>>, <<1, 3, 1, 2>>, <<4, 5, 4, 3>>, <<4, 0, 4,
       1>>, <<4, 3, 5, 3>>, <<1, 2, 2, 2>>, <<1, 5, 0, 5>>, <<6, 2, 3, 2>>,
       <<6, 4, 6, 5>>, <<3, 2, 6, 2>>, <<0, 5, 3, 5>>, <<4, 1, 4, 6>>, <<6,
       5, 6, 3>>, <<6, 1, 4, 1>>, <<5, 3, 5, 0>>, <<3, 1, 0, 1>>, <<3, 5, 1,
       5>>, <<1, 4, 3, 4>>, <<2, 3, 2, 5>>, <<2, 2, 2, 0>>, <<5, 0, 3, 0>>,
       <<6, 2, 0, 2>>, <<2, 5, 6, 5>>, <<5, 6, 5, 2>>, <<1, 5, 1, 2>>, <<4,
       1, 3, 1>>, <<6, 3, 4, 3>>, <<0, 1, 1, 1>>, <<6, 5, 1, 5>>, <<3, 4, 2,
       4>>, <<4, 3, 4, 4>>, <<5, 2, 5, 3>>, <<3, 0, 4, 0>>, <<2, 4, 3, 4>>,
       <<4, 4, 4, 3>>, <<2, 0, 2, 4>>, <<1, 2, 4, 2>>, <<5, 3, 5, 4>>, <<4,
       0, 3, 0>>, <<3, 6, 1, 6>>, <<3, 3, 1, 3>>, <<3, 4, 3, 6>>, <<1, 5, 6,
       5>>, <<2, 4, 3, 4>>, <<4, 3, 5, 3>>, <<4, 6, 4, 4>>, <<5, 3, 5, 0>>,
       <<3, 6, 2, 6>>, <<4, 2, 4, 0>>, <<1, 1, 0, 1>>, <<5, 0, 5, 3>>, <<3,
       4, 2, 4>>, <<6, 5, 6, 4>>, <<3, 1, 2, 1>>, <<4, 0, 4, 3>>, <<2, 1, 4,
       1>>, <<1, 3, 3, 3>>, <<0, 2, 0, 4>>, <<3, 3, 1, 3>>, <<4, 1, 2, 1>>,
       <<6, 4, 6, 1>>, <<2, 4, 2, 5>>, <<3, 0, 3, 2>>, <<4, 4, 4, 5>>, <<3,
       2, 5, 2>>, <<5, 4, 4, 4>>, <<5, 2, 3, 2>> >>

InitComputer ==
    /\ board = new.board
    /\ player = new.player
    /\ hash = new.hash
    /\ king_pos = new.king_pos
    /\ history = new.history
    /\ trail = << >>
    /\ prev = new
    /\ free = 0
    /\ seen = <<new.hash>>
    /\ construction = [seed |-> 0, iterations_per_move |-> 1,
                       generation_range |-> 1, result |-> "built"]
    /\ engine = MCTS_new(0, 1, 1)
    /\ tt_last = [op |-> "none"]
    /\ inserted = {}
    /\ lost = {}
    /\ tt_trail = << >>
    /\ tt_free = 0
    /\ human = [kind |-> "none"]
    /\ search = [pc |-> "idle", run |-> 0, move |-> << >>]

\* move_piece on the game state; the moves explored are those of the
\* recorded game.
Moved(by, m) ==
    /\ OnLine(<<EngineGame>>, m)
    /\ LET T == move_piece(Self, m)
       IN  /\ board' = T.board
           /\ player' = T.player
           /\ hash' = T.hash
           /\ king_pos' = T.king_pos
           /\ history' = T.history
    /\ trail' = Append(trail, m)
    /\ prev' = Self
    /\ search' = [pc |-> by, run |-> search.run + 1, move |-> m]
    /\ UNCHANGED <<construction, tt_last, inserted, lost, tt_trail, tt_free,
                   seen, free, human>>

\* The opponent's turn in the game loop.
OpponentMove ==
    /\ player = "W"
    /\ check_game_over(Self) = "None"
    /\ UNCHANGED engine
    /\ \E m \in Range(get_legal_moves(Self)) : Moved("opponent", m)

\* MCTS::computer_move: get_move, then move_piece of the move on the state.
ComputerMove ==
    /\ player = "B"
    /\ check_game_over(Self) = "None"
    /\ \E winning_move \in {heuristic_move(Self)} :
          IF winning_move # << >>
          THEN /\ UNCHANGED engine
               /\ Moved("computer", winning_move)
          ELSE /\ engine.generation + 1 < MAX_GEN
               /\ \E moves \in {get_legal_moves(Self)} :
                  \E E0 \in {increase_generation(engine)} :
                  \E stats \in {root_stats(E0, Self)} :
                  \E E \in {write_root(E0, Self, stats.visits + descents(E0),
                                        stats.wins)} :
                  \E best_move \in {most_visited_from(E, Self, moves, 1, 0, 0)} :
                     /\ engine' = E
                     /\ \E m \in Range(moves) :
                           /\ best_move # 0 => m = moves[best_move]
                           /\ Moved("computer", m)

NextComputer ==
    \/ OpponentMove
    \/ ComputerMove

SpecComputer == InitComputer /\ [][NextComputer]_vars

(***************************************************************************)
(* Properties.                                                             *)
(***************************************************************************)
\* The move that led to the current state, and what it did.
Played == trail # << >>

Last == trail[Len(trail)]

\* The board right after the mover was put on its destination, before the
\* captures of the move were resolved.
Placed == move_piece_pre(prev, Last).board

\* The cells whose piece the last move removed by capture.
Captured ==
    { rc \in Idx \X Idx : Placed[rc[1]][rc[2]] # "." /\ board[rc[1]][rc[2]] = "." }

\* The XOR of the constants of the pieces on the board and of the side to move.
FullHash(b, pl) ==
    Xor(board_hash(b, 0), IF pl = "B" THEN black_to_move ELSE {})

\* C1 (hash fidelity): after every legal move the hash field of the new
\* state equals next_hash of the previous state and the move, captures and
\* king captures included.
C1_HashFidelity ==
    Played => hash = next_hash(prev, Last)

\* C1, without the moves that capture the king: next_hash and move_piece
\* agree on every other legal move.
C1_HashFidelityKingStays ==
    (Played /\ count_piece(board, "K") = 1) => hash = next_hash(prev, Last)

\* C2 (incremental Zobrist invariant): the hash field is the XOR of
\* table[r][c][piece] over the non-empty cells, XORed with black_to_move
\* exactly when black is to move.
C2_ZobristInvariant ==
    hash = FullHash(board, player)

C2_WitnessKingCaptured ==
    Played /\ count_piece(board, "K") = 0 /\ hash = FullHash(board, player)

\* C3 (repetition history): below the cap, history[0] is the hash of the
\* starting position and history[i+1] is the hash field after ply i was
\* fully applied, captures included.
C3_HistoryIsHashes ==
    Len(trail) < MAX_GAME_LENGTH => history = seen

\* C4 (no position repeated): below the cap, the hash of the state after a
\* move differs from the hash of every earlier state of the game.
C4_NoRepetition ==
    Len(trail) < MAX_GAME_LENGTH =>
        \A i \in 1 .. Len(seen) - 1 : seen[i] # hash

\* C5 (every playout terminates), as a property a finite run refutes: a
\* playout never comes back to a GameState it was in before.  From the ply
\* at which history is full the history field no longer changes, and an
\* equal hash is an equal board and side to move; from a state that recurs
\* the same moves can be drawn again without end.
C5_PlayoutNeverReturns ==
    \A i \in 1 .. Len(seen) - 1 :
        ~(i >= MAX_GAME_LENGTH /\ seen[i] = hash /\ hash = FullHash(board, player))

\* The legal moves by their description: a piece of the side to move, an
\* empty destination, a straight clear path, the restricted squares.
Between(a, b) == { i \in Idx : (a < i /\ i < b) \/ (b < i /\ i < a) }

ClaimLegal(S, t) ==
    /\ \A i \in 1 .. 4 : t[i] <= 6
    /\ LET piece == S.board[t[1]][t[2]]
       IN  /\ \/ S.player = "B" /\ piece = "B"
              \/ S.player = "W" /\ piece \in {"W", "K"}
           /\ S.board[t[3]][t[4]] = "."
           /\ \/ t[1] = t[3] /\ t[2] # t[4]
                 /\ \A i \in Between(t[2], t[4]) : S.board[t[1]][i] = "."
              \/ t[2] = t[4] /\ t[1] # t[3]
                 /\ \A i \in Between(t[1], t[3]) : S.board[i][t[2]] = "."
           /\ (IsCorner(t[3], t[4]) \/ (t[3] = 3 /\ t[4] = 3)) => piece = "K"

ClaimNotRepeating(S, t) ==
    \A i \in 1 .. Len(S.history) : S.history[i] # next_hash(S, t)

Opposing(victim) == IF victim = "B" THEN {"W", "K"} ELSE {"B"}

OtherSideMen(mover) == IF mover = "B" THEN "W" ELSE "B"

ClaimHostile(b, r, c, victim) ==
    /\ OnBoard(r, c)
    /\ \/ b[r][c] \in Opposing(victim)
       \/ IsCorner(r, c)
       \/ r = 3 /\ c = 3 /\ (victim = "B" \/ b[r][c] = ".")

\* C7 (capture rule): a neighbour of the destination that holds a non-king
\* piece of the other side is removed iff the square beyond it is on the
\* board and hostile to it; this holds for all four neighbours of one move.
C7_CaptureRule ==
    Played =>
        LET er == Last[3]
            ec == Last[4]
            victim == OtherSideMen(Placed[er][ec])
        IN  \A i \in 1 .. 4 :
                LET nr == er + directions[i][1]
                    nc == ec + directions[i][2]
                IN  (OnBoard(nr, nc) /\ Placed[nr][nc] = victim) =>
                        (board[nr][nc] = "." <=>
                            ClaimHostile(Placed, nr + directions[i][1],
                                         nc + directions[i][2], victim))

C7_WitnessTripleCapture ==
    Played /\ Cardinality(Captured) = 3 /\ count_piece(board, "K") = 1

\* The cells orthogonally next to a cell, on the board or not.
Beside(r, c) == { <<r - 1, c>>, <<r + 1, c>>, <<r, c - 1>>, <<r, c + 1>> }

Attacker(b, n) == OnBoard(n[1], n[2]) /\ b[n[1]][n[2]] = "B"

ClaimKingTaken(b, r, c) ==
    IF r = 3 /\ c = 3
    THEN \A n \in Beside(r, c) : Attacker(b, n)
    ELSE IF <<3, 3>> \in Beside(r, c)
    THEN \A n \in Beside(r, c) \ {<<3, 3>>} : Attacker(b, n)
    ELSE \/ /\ Attacker(b, <<r - 1, c>>) \/ (OnBoard(r - 1, c) /\ IsCorner(r - 1, c))
            /\ Attacker(b, <<r + 1, c>>) \/ (OnBoard(r + 1, c) /\ IsCorner(r + 1, c))
         \/ /\ Attacker(b, <<r, c - 1>>) \/ (OnBoard(r, c - 1) /\ IsCorner(r, c - 1))
            /\ Attacker(b, <<r, c + 1>>) \/ (OnBoard(r, c + 1) /\ IsCorner(r, c + 1))

ClaimResult(S) ==
    IF \E r \in {0, 6} : \E c \in {0, 6} : S.board[r][c] = "K" THEN "W"
    ELSE IF count_piece(S.board, "K") = 0 THEN "B"
    ELSE IF get_legal_moves(S) = << >>
         THEN (IF S.player = "B" THEN "W" ELSE "B")
    ELSE IF count_piece(S.board, "B") <= 2 /\ count_piece(S.board, "W") <= 1 THEN "D"
    ELSE "None"

C10_KingAccounting ==
    \/ count_piece(board, "K") = 1
    \/ count_piece(board, "K") = 0 /\ check_game_over(Self) = "B"

C10_WitnessNoKing ==
    Played /\ count_piece(board, "K") = 0 /\ check_game_over(Self) = "B"

\* The corners and the throne.
Restricted == { <<0, 0>>, <<0, 6>>, <<6, 0>>, <<6, 6>>, <<3, 3>> }

\* C11 (restricted squares): each corner and the throne is empty or holds
\* the king; no attacker or defender ever stands on them.
C11_RestrictedSquares ==
    \A q \in Restricted : board[q[1]][q[2]] \in {".", "K"}

\* A man has just been played along a line that continues, over empty
\* squares only, onto an empty restricted square.
C11_WitnessManFacesRestricted ==
    /\ Played
    /\ Placed[Last[3]][Last[4]] \in {"B", "W"}
    /\ \E q \in Restricted :
          /\ prev.board[q[1]][q[2]] = "."
          /\ \/ /\ q[1] = Last[1] /\ q[1] = Last[3]
                /\ \A i \in Between(Last[2], q[2]) : prev.board[q[1]][i] = "."
                /\ Last[4] \in Between(Last[2], q[2])
             \/ /\ q[2] = Last[2] /\ q[2] = Last[4]
                /\ \A i \in Between(Last[1], q[1]) : prev.board[i][q[2]] = "."
                /\ Last[3] \in Between(Last[1], q[1])

\* The bucket of the key of the last table operation, as it is now.
BucketNow == get_bucket(engine.transpositions, tt_last.key)

\* C12 (insert of a present hash is a no-op): if an entry of the bucket has
\* the tag of the hash, add_entry leaves the four entries unchanged.
C12_PresentIsNoOp ==
    (tt_last.op = "add" /\ \E i \in 1 .. 4 : tt_last.before[i].hash = tt_last.key.hi)
        => BucketNow = tt_last.before

\* The entry add_entry writes.
Fresh(key, generation) ==
    [hash |-> key.hi, generation |-> generation, n_visits |-> 0, n_wins |-> 0]

EmptySlots(bucket) == { i \in 1 .. 4 : bucket[i].hash = {} }

StaleSlots(bucket, bound) == { i \in 1 .. 4 : bucket[i].generation < bound }

\* C13 (replacement priority): add_entry of an absent hash writes one
\* entry; it is an empty one if the bucket has one, else the least visited
\* of the stale ones if there is one; a fresh entry is overwritten only
\* when the bucket has neither.
C13_ReplacementPriority ==
    (tt_last.op = "add" /\ \A i \in 1 .. 4 : tt_last.before[i].hash # tt_last.key.hi)
        => LET b == tt_last.before
               E == EmptySlots(b)
               S == StaleSlots(b, tt_last.generation_bound)
           IN  \E i \in 1 .. 4 :
                   /\ BucketNow = [b EXCEPT ![i] = Fresh(tt_last.key, tt_last.generation)]
                   /\ E # {} => i \in E
                   /\ (E = {} /\ S # {}) =>
                         /\ i \in S
                         /\ \A j \in S : b[i].n_visits <= b[j].n_visits

\* A stale entry with the fewest visits has been overwritten while a fresh
\* entry with fewer visits stayed.
C13_WitnessStaleOverFresh ==
    /\ tt_last.op = "add"
    /\ \A i \in 1 .. 4 : tt_last.before[i].hash # tt_last.key.hi
    /\ EmptySlots(tt_last.before) = {}
    /\ \E i \in StaleSlots(tt_last.before, tt_last.generation_bound) :
          /\ BucketNow[i] # tt_last.before[i]
          /\ \E j \in 1 .. 4 :
                /\ j \notin StaleSlots(tt_last.before, tt_last.generation_bound)
                /\ tt_last.before[j].n_visits < tt_last.before[i].n_visits

\* C14 (TT self-consistency): a key that was inserted is found by
\* get_entry unless an insertion of another, absent key of the same bucket
\* has taken its entry since; and the tag of an entry changes only when
\* add_entry writes the entry for the key it was called with.
C14_SelfConsistency ==
    /\ \A H \in inserted \ lost :
          LET bucket == get_bucket(engine.transpositions, H)
          IN  /\ get_entry(bucket, H) # 0
              /\ bucket[get_entry(bucket, H)].hash = H.hi
    /\ tt_last.op \in {"add", "backpropagate"} =>
          \A i \in 1 .. 4 :
              BucketNow[i].hash # tt_last.before[i].hash =>
                  (tt_last.op = "add" /\ BucketNow[i].hash = tt_last.key.hi)

\* The largest value of the visit bit field.
VisitCapacity == 2 ^ VISITS_BITS - 1

\* a * b > VisitCapacity, without forming the product.
ExceedsCapacity(a, b) == a > 0 /\ b > VisitCapacity \div a

\* C15 (overflow guard): MCTS::new panics for every configuration in which
\* iterations_per_move times generation_range exceeds the capacity of the
\* visit bit field; no such configuration yields an engine.
C15_OverflowGuard ==
    construction.result = "built" =>
        ~ExceedsCapacity(construction.iterations_per_move,
                         construction.generation_range)

\* C20 (illegal human input does not advance the game): after a line that
\* is not four integers, or names a move that is_legal_move rejects, the
\* GameState is the one the line was read in; the state changes only by a
\* line of four integers naming a legal move, and then by that move.
C20_IllegalInputRejected ==
    human.kind # "none" =>
        IF human.accepted
        THEN /\ human.kind = "four integers"
             /\ Last \in Range(get_legal_moves(human.before))
             /\ Self = move_piece(human.before, Last)
        ELSE Self = human.before

\* C20 for the lines that hold integers only.
C20_IntegerLines ==
    (human.kind # "none" /\ human.kind # "not integers") =>
        IF human.accepted
        THEN /\ human.kind = "four integers"
             /\ Last \in Range(get_legal_moves(human.before))
             /\ Self = move_piece(human.before, Last)
        ELSE Self = human.before

\* The value of a finished game to a player: WIN if the player won it, LOSS
\* if the opponent did, DRAW if nobody did.
OutcomeValue(outcome, pl) ==
    IF outcome = "D" THEN DRAW
    ELSE IF outcome = pl THEN WIN
    ELSE LOSS

\* C16 (value of a state): when a call of selection on a state S returns
\* after a descent that ended with the game over (in a terminal state of
\* the tree or at the end of a playout), the value returned is WIN, LOSS or
\* DRAW and it is the result of that game to the player to move in S.
C16_ValueOfState ==
    (search.last.kind \in {"terminal", "child"}
     /\ search.last.outcome \in {"W", "B", "D"}) =>
        /\ search.last.value \in {WIN, LOSS, DRAW}
        /\ search.last.value
              = OutcomeValue(search.last.outcome, search.last.state.player)

\* C16 on the states the game is over in: selection called on a terminal
\* state returns the result of the game to its player.
C16_TerminalStates ==
    (search.last.kind = "terminal") =>
        search.last.value
           = OutcomeValue(search.last.outcome, search.last.state.player)

\* C17 (selection perspective): when selection has picked a child and got
\* the value r for it, from simulation after an expansion or from the
\* nested call of selection, the value it returns is -r.
C17_SelectionPerspective ==
    (search.last.kind = "child") => search.last.value + search.last.r = 0

\* A nested call of selection has returned DRAW for the chosen child, and
\* the caller has returned.
C17_WitnessRecursiveDraw ==
    /\ search.last.kind = "child"
    /\ ~search.last.expansion
    /\ search.last.r = DRAW

\* The successor of a root move is not a terminal loss for the root's player:
\* it is not a finished game the opponent has won.
NotLost(m) ==
    LET winner == check_game_over(move_piece(Self, m))
    IN  ~(winner \in {"W", "B"} /\ winner # player)

\* The visits of the entry of the successor of a root move, 0 without entry.
VisitsOf(m) ==
    LET L == lookup(engine, Key(move_piece(Self, m).hash))
    IN  IF L.found THEN get_n_visits(L.entry) ELSE 0

\* The move the choice falls on among the moves that satisfy Q: the first
\* in the order of get_legal_moves of those with the most visits.
FirstMostVisited(Q(_)) ==
    LET moves == get_legal_moves(Self)
        among == { k \in 1 .. Len(moves) : Q(moves[k]) /\ VisitsOf(moves[k]) > 0 }
        top == { k \in among : \A j \in among :
                    /\ VisitsOf(moves[j]) <= VisitsOf(moves[k])
                    /\ (VisitsOf(moves[j]) = VisitsOf(moves[k]) => k <= j) }
    IN  IF among = {} THEN << >> ELSE moves[CHOOSE k \in top : TRUE]

\* C18 (root move choice): the move get_move returns after the search is
\* the first most visited move among the legal moves whose successor is not
\* a terminal loss for the root's player; a legal move if there is none.
C18_RootMoveChoice ==
    (search.pc = "done" /\ search.searched) =>
        /\ search.move \in Range(get_legal_moves(Self))
        /\ FirstMostVisited(NotLost) # << >> =>
              search.move = FirstMostVisited(NotLost)

\* The successor of a root move is no finished game, or one the root's
\* player has won.
NotOverOrWon(m) ==
    check_game_over(move_piece(Self, m)) \in {"None", player}

\* C18 with the drawn successors left out as well.
C18_WithoutDraws ==
    (search.pc = "done" /\ search.searched) =>
        /\ search.move \in Range(get_legal_moves(Self))
        /\ FirstMostVisited(NotOverOrWon) # << >> =>
              search.move = FirstMostVisited(NotOverOrWon)

\* C19 (search determinism): the second run of get_move, on an engine built
\* with the same seed and iterations_per_move, for the same root and from
\* the same table, returns the move of the first run and leaves the table
\* of the first run.
C19_SearchDeterminism ==
    (search.pc = "done" /\ search.run = 2) =>
        /\ search.move = search.first.move
        /\ engine.transpositions = search.first.transpositions

\* The two axis reflections of the board, of a cell, of a move and of a
\* state; the hash of a reflected state is the hash of its board and side.
Axes == {"rows", "columns"}

MirrorCell(rc, axis) ==
    IF axis = "rows" THEN <<6 - rc[1], rc[2]>> ELSE <<rc[1], 6 - rc[2]>>

MirrorBoard(b, axis) ==
    [r \in Idx |-> [c \in Idx |->
        b[MirrorCell(<<r, c>>, axis)[1]][MirrorCell(<<r, c>>, axis)[2]]]]

MirrorMove(m, axis) ==
    MirrorCell(<<m[1], m[2]>>, axis) \o MirrorCell(<<m[3], m[4]>>, axis)

MirrorState(S, axis) ==
    LET b == MirrorBoard(S.board, axis)
        h == FullHash(b, S.player)
    IN  [board |-> b, player |-> S.player, hash |-> h,
         king_pos |-> MirrorCell(S.king_pos, axis), history |-> <<h>>]

SameUpToMirror(T, U, axis) ==
    /\ U.board = MirrorBoard(T.board, axis)
    /\ U.player = T.player
    /\ U.king_pos = MirrorCell(T.king_pos, axis)

\* C21 (capture symmetry): for every legal move of the state and each axis
\* reflection, move_piece of the reflected move on the reflected state gives
\* the reflection of the board, side to move and king position that
\* move_piece gives on the state itself.
C21_CaptureSymmetry ==
    \A m \in Range(get_legal_moves(Self)) : \A axis \in Axes :
        SameUpToMirror(move_piece(Self, m),
                       move_piece(MirrorState(Self, axis), MirrorMove(m, axis)),
                       axis)

\* A move that captures the piece to the east of its destination, on a
\* board that is its own mirror image under neither reflection.
C21_WitnessLopsidedCapture ==
    /\ Played
    /\ \E rc \in Captured : rc = <<Last[3], Last[4] + 1>>
    /\ \A axis \in Axes : MirrorBoard(prev.board, axis) # prev.board
    /\ \A axis \in Axes :
          SameUpToMirror(Self,
                         move_piece(MirrorState(prev, axis), MirrorMove(Last, axis)),
                         axis)

\* C22 (backpropagation finds the child): whenever selection reaches its
\* backpropagation step, the lookup of the selected child's hash succeeds.
C22_BackpropagationFinds ==
    (search.pc # "idle" /\ search.last.kind = "child") => search.last.found

\* Right after an expansion the lookup succeeds.
C22_FoundAfterExpansion ==
    (search.pc # "idle" /\ search.last.kind = "child" /\ search.last.expansion)
        => search.last.found

\* simulation has just returned to the selection that called it: the frame
\* on top is an expansion, search.state is the state it was called on.
SimulationReturned ==
    /\ search.pc = "return"
    /\ search.stack # << >>
    /\ search.stack[Len(search.stack)].is_expansion_phase
    /\ search.outcome \in {"W", "B", "D"}

\* C23 (simulation outcome): a playout that check_game_over ends gives WIN
\* iff the player of the state passed in has won, LOSS iff the other side
\* has won, DRAW iff the game is drawn.
C23_SimulationOutcome ==
    SimulationReturned =>
        LET pl == search.state.player
            other == IF pl = "B" THEN "W" ELSE "B"
        IN  /\ search.value = WIN <=> search.outcome = pl
            /\ search.value = LOSS <=> search.outcome = other
            /\ search.value = DRAW <=> search.outcome = "D"

\* The same for the playouts that one side wins.
C23_DecidedPlayouts ==
    (SimulationReturned /\ search.outcome # "D") =>
        (search.value = WIN <=> search.outcome = search.state.player)

\* C24 (a non-terminal state has a move): for either side as the side to
\* move, has_legal_move is true iff get_legal_moves returns a non-empty
\* list; so where check_game_over returns None the list is not empty.
C24_MoveExists ==
    /\ \A pl \in {"B", "W"} :
          has_legal_move(Self, pl) <=> get_legal_moves([Self EXCEPT !.player = pl]) # << >>
    /\ check_game_over(Self) = "None" => get_legal_moves(Self) # << >>

\* The side to move has no move although the king stands, off the corners,
\* and the other side could move.
C24_WitnessBlocked ==
    /\ Played
    /\ board[king_pos[1]][king_pos[2]] = "K"
    /\ ~IsCorner(king_pos[1], king_pos[2])
    /\ ~has_legal_move(Self, player)
    /\ get_legal_moves(Self) = << >>
    /\ has_legal_move(Self, IF player = "B" THEN "W" ELSE "B")

\* The no-move branches of selection and of simulation are not taken.
C24_NoMoveBranches ==
    search.pc \in {"selection", "simulation", "return", "iteration", "done"}
        => search.outcome # "no moves"

\* The last operation was add_entry of a hash no entry of the bucket matched.
AddedAbsent ==
    /\ tt_last.op = "add"
    /\ \A i \in 1 .. 4 : tt_last.before[i].hash # tt_last.key.hi

\* The entries with the fewest visits.
LeastVisited(bucket) ==
    { i \in 1 .. 4 : \A j \in 1 .. 4 : bucket[i].n_visits <= bucket[j].n_visits }

\* C25 (overwrite when all entries are fresh): add_entry of an absent hash
\* changes exactly one entry of the bucket, which becomes (tag, G, 0, 0);
\* in a bucket without an empty or a stale entry it is the entry with the
\* fewest visits, the one of lowest index on ties.
C25_OverwriteLeastVisited ==
    AddedAbsent =>
        LET b == tt_last.before
        IN  /\ \E i \in 1 .. 4 :
                  /\ BucketNow = [b EXCEPT ![i] = Fresh(tt_last.key, tt_last.generation)]
                  /\ BucketNow[i] # b[i]
            /\ (EmptySlots(b) = {} /\ StaleSlots(b, tt_last.generation_bound) = {}) =>
                  \E i \in LeastVisited(b) :
                      /\ \A j \in LeastVisited(b) : i <= j
                      /\ BucketNow = [b EXCEPT ![i] = Fresh(tt_last.key, tt_last.generation)]

\* A bucket full of fresh entries with different visit counts, two of them
\* sharing the smallest, none of these the first entry.
C25_WitnessTieAmongFresh ==
    /\ AddedAbsent
    /\ EmptySlots(tt_last.before) = {}
    /\ StaleSlots(tt_last.before, tt_last.generation_bound) = {}
    /\ Cardinality(LeastVisited(tt_last.before)) = 2
    /\ 1 \notin LeastVisited(tt_last.before)
    /\ \E i \in LeastVisited(tt_last.before) : BucketNow[i] # tt_last.before[i]

\* C26 (generation bound): generation grows by one with each start_search
\* and changes at no other step, and generation_bound is generation -
\* generation_range once generation exceeds generation_range, 0 before.
C26_GenerationBound ==
    [][ /\ engine'.generation =
              IF search'.pc = "iteration" /\ search.pc \in {"idle", "done"}
              THEN engine.generation + 1
              ELSE engine.generation
        /\ engine'.generation_bound =
              IF engine'.generation > engine'.generation_range
              THEN engine'.generation - engine'.generation_range
              ELSE 0 ]_vars

\* The bound has started to follow a generation range of 2, after two
\* searches that left it at 0.
C26_WitnessBoundFollows ==
    /\ engine.generation_range = 2
    /\ engine.generation = 4
    /\ engine.generation_bound = 2
    /\ search.pc = "done"

Backpropagated ==
    search.pc \in {"return", "iteration"} /\ search.last.kind = "child"

\* The entry of the child gets generation G, one more visit and r more
\* wins; no other entry of the table changes.
ChildWritten ==
    LET key == search.last.selected_hash
        before == get_bucket(search.last.before, key)
        now == get_bucket(engine.transpositions, key)
        i == get_entry(before, key)
    IN  /\ i # 0
        /\ get_generation(now[i]) = engine.generation
        /\ get_n_visits(now[i]) = get_n_visits(before[i]) + 1
        /\ get_n_wins(now[i]) = get_n_wins(before[i]) + search.last.r
        /\ now[i].hash = before[i].hash
        /\ \A j \in 1 .. 4 : j # i => now[j] = before[j]
        /\ \A lo \in (DOMAIN search.last.before \cup DOMAIN engine.transpositions)
                        \ {key.lo} :
              /\ lo \in DOMAIN search.last.before
              /\ lo \in DOMAIN engine.transpositions
              /\ engine.transpositions[lo] = search.last.before[lo]

\* C28 (backpropagation write): the step after the simulation or the
\* recursion sets the generation of the child's entry to G, adds 1 to its
\* visits and r to its wins, and changes no other entry.
C28_BackpropagationWrite ==
    Backpropagated => ChildWritten

\* The same where the child's entry is found.
C28_WriteWhenFound ==
    (Backpropagated /\ search.last.found) => ChildWritten

\* Every child of the node has an entry with visits.
AllChildrenVisited(node) ==
    \A c \in Range(TreeChildren(node)) :
        LET bucket == get_bucket(engine.transpositions, c)
            i == get_entry(bucket, c)
        IN  i # 0 /\ bucket[i].n_visits > 0

\* C29 (expansion before recursion): a call of selection is made on a child
\* only when every legal child of the parent has visits; an inserted child
\* had none and is simulated, not descended into; a descent inserts at most
\* once and simulates at most once, and no call of selection follows.
C29_ExpansionBeforeRecursion ==
    search.pc \in {"selection", "return"} =>
        LET n == Len(search.stack)
        IN  /\ search.inserts <= 1
            /\ search.simulations <= 1
            /\ search.pc = "selection" => search.inserts = 0 /\ search.simulations = 0
            /\ \A k \in 1 .. n - 1 : ~search.stack[k].is_expansion_phase
            /\ (search.pc = "selection" /\ n > 0) =>
                  /\ ~search.stack[n].is_expansion_phase
                  /\ search.stack[n].selected_hash = search.node
                  /\ AllChildrenVisited(search.stack[n].node)
            /\ (n > 0 /\ search.stack[n].is_expansion_phase) =>
                  /\ search.pc = "return"
                  /\ search.inserts = 1
                  /\ search.simulations = 1
                  /\ LET L == lookup(engine, search.stack[n].selected_hash)
                     IN  L.found /\ get_n_visits(L.entry) = 0

\* A descent that recursed below the root, where every child had visits,
\* then inserted a child of a node that has unvisited children and
\* simulated it.
C29_WitnessExpansionBelow ==
    /\ search.pc = "return"
    /\ Len(search.stack) = 2
    /\ ~search.stack[1].is_expansion_phase
    /\ search.stack[2].is_expansion_phase
    /\ AllChildrenVisited(search.stack[1].node)
    /\ search.inserts = 1

\* The fields of the entry a setter was called on that are not its own
\* read the same before and after the call.
OthersKept ==
    LET a == tt_last.before
        b == tt_last.entry
        own == CASE tt_last.op = "set_hash" -> "hash"
                 [] tt_last.op = "set_generation" -> "generation"
                 [] tt_last.op \in {"set_n_visits", "add_n_visits"} -> "n_visits"
                 [] OTHER -> "n_wins"
    IN  /\ own # "hash" => b.hash = a.hash
        /\ own # "generation" => get_generation(b) = get_generation(a)
        /\ own # "n_visits" => get_n_visits(b) = get_n_visits(a)
        /\ own # "n_wins" => get_n_wins(b) = get_n_wins(a)

\* C30 (setters touch only their field): after a call of set_hash,
\* set_generation, set_n_visits, set_n_wins, add_n_visits or add_n_wins the
\* getters of the other three fields return what they returned before.
C30_SettersKeepOtherFields ==
    tt_last.op # "none" => OthersKept

\* The same for every call but set_generation of a value that does not fit
\* the field.
C30_MaskedSetters ==
    (/\ tt_last.op # "none"
     /\ tt_last.op = "set_generation" => tt_last.arg < 2 ^ GEN_BITS)
        => OthersKept

\* The range of the signed 30-bit field of wins.
InWinsRange(v) == -(2 ^ (WINS_BITS - 1)) <= v /\ v <= 2 ^ (WINS_BITS - 1) - 1

\* C31: get_n_wins after set_n_wins(v) returns v for every v of the signed
\* 30-bit range, and add_n_wins(d) with d in {-1, 0, +1} makes get_n_wins
\* return the previous value plus d whenever that sum is in the range,
\* negative sums included.
C31_SignedWinsRoundTrip ==
    /\ (tt_last.op = "set_n_wins" /\ InWinsRange(tt_last.arg))
          => get_n_wins(tt_last.entry) = tt_last.arg
    /\ (/\ tt_last.op = "add_n_wins"
        /\ tt_last.arg \in {-1, 0, 1}
        /\ InWinsRange(get_n_wins(tt_last.before) + tt_last.arg))
          => get_n_wins(tt_last.entry) = get_n_wins(tt_last.before) + tt_last.arg

\* A decrement that takes the wins from the lowest value but one of the
\* range to the lowest, after that value was set.
C31_WitnessNegativeSum ==
    /\ tt_last.op = "add_n_wins"
    /\ tt_last.arg = -1
    /\ get_n_wins(tt_last.before) = 1 - 2 ^ (WINS_BITS - 1)
    /\ get_n_wins(tt_last.entry) = -(2 ^ (WINS_BITS - 1))

TableEntries ==
    { engine.transpositions[x][i] : x \in DOMAIN engine.transpositions, i \in 1 .. 4 }

\* A search adds at most one visit per descent to an entry: after
\* generation searches no entry holds more than one visit plus the descents
\* made so far.
C32_VisitsPerSearch ==
    search.pc # "idle" =>
        \A entry \in TableEntries :
            get_n_visits(entry) <= 1 + engine.generation * descents(engine)

\* get_bucket(H) followed by get_entry(H) returns an entry.
Found(H) == lookup(engine, H).found

\* The entry returned for H: the bucket and the index in it.
Slot(H) ==
    <<H.lo, get_entry(get_bucket(engine.transpositions, H), H)>>

\* C33 (exact lookup), as stated: get_bucket(h) followed by get_entry(h)
\* returns an entry only if add_entry wrote it for the hash h, for every
\* hash h.
C33_ExactLookup ==
    \A H \in Keys : Found(H) => H \in inserted

\* C33, for hashes whose upper 40 bits are not all zero: the lookup of h
\* returns an entry only if add_entry wrote it for h, the entry carries the
\* tag of h in the bucket of h, and two different hashes are never given
\* the same entry.
C33_ExactLookupOfTags ==
    /\ \A H \in Keys :
          (H.hi # {} /\ Found(H)) =>
              /\ H \in inserted
              /\ lookup(engine, H).entry.hash = H.hi
    /\ \A H1, H2 \in Keys :
          (H1 # H2 /\ H1.hi # {} /\ H2.hi # {} /\ Found(H1) /\ Found(H2))
              => Slot(H1) # Slot(H2)

\* Two hashes with the same tag in two buckets and a third one sharing a
\* bucket are found, each in its own entry, while the hash with the tag of
\* the third and the index of the other bucket is not.
C33_WitnessSameTagTwoBuckets ==
    /\ Found(K(1, 0)) /\ Found(K(1, 1)) /\ Found(K(2, 1))
    /\ lookup(engine, K(1, 0)).entry # lookup(engine, K(1, 1)).entry
    /\ ~Found(K(2, 0))

\* C34 (king position cache): king_pos is the cell that holds the king,
\* unless the last move captured the king there; then the cell is empty and
\* check_game_over returns Black.
C34_KingPositionCache ==
    \/ board[king_pos[1]][king_pos[2]] = "K"
    \/ /\ Played
       /\ Placed[king_pos[1]][king_pos[2]] = "K"
       /\ king_pos \in Captured
       /\ board[king_pos[1]][king_pos[2]] = "."
       /\ check_game_over(Self) = "B"

\* The king has left the throne and has then been captured on the cell
\* king_pos names.
C34_WitnessTakenAwayFromThrone ==
    /\ Played
    /\ king_pos # new.king_pos
    /\ Placed[king_pos[1]][king_pos[2]] = "K"
    /\ board[king_pos[1]][king_pos[2]] = "."

\* The king has moved and stands on the cell king_pos names.
C34_KingFollowed ==
    Played /\ king_pos # new.king_pos /\ board[king_pos[1]][king_pos[2]] = "K"

\* next_hash reaches its ghost-square branch for the move in direction d:
\* the neighbour of the destination holds an enemy of the mover and the
\* square beyond it is the source of the move.
GhostBranch(S, coords, d) ==
    LET piece == S.board[coords[1]][coords[2]]
        enemy == IF piece = "B" THEN "W" ELSE "B"
        r_victim == coords[3] + d[1]
        c_victim == coords[4] + d[2]
    IN  /\ OnBoard(r_victim, c_victim)
        /\ S.board[r_victim][c_victim] = enemy
        /\ OnBoard(r_victim + d[1], c_victim + d[2])
        /\ r_victim + d[1] = coords[1]
        /\ c_victim + d[2] = coords[2]

\* The neighbour of the destination in direction d holds a piece other than
\* the mover, and the square beyond it is on the board.
HasAnvil(S, coords, d) ==
    LET r_victim == coords[3] + d[1]
        c_victim == coords[4] + d[2]
    IN  /\ OnBoard(r_victim, c_victim)
        /\ S.board[r_victim][c_victim] # "."
        /\ <<r_victim, c_victim>> # <<coords[1], coords[2]>>
        /\ OnBoard(r_victim + d[1], c_victim + d[2])

\* C35 (no ghost square on legal moves): for every move of get_legal_moves
\* and every direction, the square two steps from the destination beyond a
\* piece next to the destination is not the source of the move, and
\* next_hash does not reach its ghost-square branch.
C35_NoGhostSquare ==
    \A m \in Range(get_legal_moves(Self)) : \A d \in Range(directions) :
        /\ HasAnvil(Self, m, d) =>
              <<m[3] + 2 * d[1], m[4] + 2 * d[2]>> # <<m[1], m[2]>>
        /\ ~GhostBranch(Self, m, d)

\* After a capture: a legal move over exactly two squares, so that the
\* source is two steps from the destination, which has an enemy of the
\* mover with a square beyond it on another side.
C35_WitnessTwoSquareMove ==
    /\ Played
    /\ Captured # {}
    /\ \E m \in Range(get_legal_moves(Self)) : \E d, e \in Range(directions) :
          /\ <<m[3] + 2 * d[1], m[4] + 2 * d[2]>> = <<m[1], m[2]>>
          /\ e # d
          /\ HasAnvil(Self, m, e)
          /\ Self.board[m[3] + e[1]][m[4] + e[2]] =
                (IF Self.board[m[1]][m[2]] = "B" THEN "W" ELSE "B")

\* C36 (the search does not move pieces): computer_move changes the game
\* state by exactly one move_piece of a move of get_legal_moves of the
\* root; the side to move flips and the history grows by one entry.
C36_ComputerMoveFrame ==
    search.pc = "computer" =>
        /\ search.move \in Range(get_legal_moves(prev))
        /\ Self = move_piece(prev, search.move)
        /\ player # prev.player
        /\ Len(history) = Len(prev.history) + 1

\* C36 while the history has room: the same, the history growing by one
\* entry if it held fewer than MAX_GAME_LENGTH entries and staying as it
\* was otherwise.
C36_ComputerMoveBelowCap ==
    search.pc = "computer" =>
        /\ search.move \in Range(get_legal_moves(prev))
        /\ Self = move_piece(prev, search.move)
        /\ player # prev.player
        /\ Len(history) = IF Len(prev.history) < MAX_GAME_LENGTH
                          THEN Len(prev.history) + 1
                          ELSE Len(prev.history)

\* The piece the last move moved.
Mover == prev.board[Last[1]][Last[2]]

\* The last move put its piece between two pieces of the other side.
MovedBetweenEnemies ==
    LET foe(r, c) == OnBoard(r, c) /\ board[r][c] \in Opposing(Mover)
    IN  \/ foe(Last[3] - 1, Last[4]) /\ foe(Last[3] + 1, Last[4])
        \/ foe(Last[3], Last[4] - 1) /\ foe(Last[3], Last[4] + 1)

\* C37 (frame of a move): move_piece empties the source and puts the mover
\* on the destination; any other cell that changes is an orthogonal
\* neighbour of the destination that held a piece of the opposing side and
\* is empty afterwards; no piece of the moving side is removed, none is
\* added, and the side to move flips.
C37_MoveFrame ==
    Played =>
        /\ board[Last[1]][Last[2]] = "."
        /\ board[Last[3]][Last[4]] = prev.board[Last[1]][Last[2]]
        /\ \A r \in Idx : \A c \in Idx :
              (/\ <<r, c>> # <<Last[1], Last[2]>>
               /\ <<r, c>> # <<Last[3], Last[4]>>
               /\ board[r][c] # prev.board[r][c])
                  => /\ <<r, c>> \in Beside(Last[3], Last[4])
                     /\ prev.board[r][c] \in Opposing(Mover)
                     /\ board[r][c] = "."
        /\ player # prev.player
        /\ player \in {"B", "W"}

\* A piece has moved between two enemies and stands there, and the move
\* has captured a third one.
C37_WitnessBetweenEnemies ==
    Played /\ MovedBetweenEnemies /\ Captured # {}

\* The absolute value of an integer.
Magnitude(n) == IF n < 0 THEN -n ELSE n

\* C38 (wins bounded by visits): every entry of the table has
\* |wins| <= visits, so -wins/visits of a visited child is in [-1, +1].
C38_WinsBoundedByVisits ==
    \A entry \in TableEntries :
        Magnitude(get_n_wins(entry)) <= get_n_visits(entry)

\* After a search: an entry whose wins equal its visits, an entry with
\* several visits and negative wins, and one with several visits and
\* positive wins.
C38_WitnessMixedResults ==
    /\ search.pc = "done"
    /\ \E entry \in TableEntries :
          get_n_visits(entry) >= 1 /\ get_n_wins(entry) = get_n_visits(entry)
    /\ \E entry \in TableEntries :
          get_n_visits(entry) >= 2 /\ get_n_wins(entry) < 0
    /\ \E entry \in TableEntries :
          get_n_visits(entry) >= 2 /\ get_n_wins(entry) > 0

\* Two entries of one bucket carry the same tag, which is not zero.
DuplicateTag(bucket) ==
    \E i, j \in 1 .. 4 :
        i # j /\ bucket[i].hash # {} /\ bucket[i].hash = bucket[j].hash

\* C39 (no duplicate tags): after any sequence of add_entry calls on the
\* zero-initialised table no bucket holds two entries with the same
\* non-zero tag.
C39_NoDuplicateTags ==
    \A x \in DOMAIN engine.transpositions : ~DuplicateTag(engine.transpositions[x])

\* C39 as long as no hash with upper 40 bits zero has been inserted.
C39_NoDuplicateWithoutZeroTag ==
    (\A H \in inserted : H.hi # {}) => C39_NoDuplicateTags

\* C40 (root entry is fresh after a search): when start_search returns in
\* generation G, the entry of the root's hash has generation G, whether
\* this search inserted it or it was present before.
C40_RootEntryFresh ==
    search.pc = "done" =>
        LET L == lookup(engine, TreeRoot)
        IN  L.found /\ get_generation(L.entry) = engine.generation

\* C40 for a root that had no entry when the search started.
C40_InsertedRootFresh ==
    (search.pc = "done" /\ ~search.stored.found) =>
        LET L == lookup(engine, TreeRoot)
        IN  L.found /\ get_generation(L.entry) = engine.generation

====
